---------------------------- MODULE Spec2Model ----------------------------
(***************************************************************************)
(* A model of datetime-parse (src/src/lib.rs): the preprocessor            *)
(* standardize_date, the ordered chain of strategies of parse_from, and    *)
(* the chrono / std primitives the strategies call.                        *)
(*                                                                         *)
(* A string is a sequence of characters.  A character is a one-letter      *)
(* string for an ASCII character and a "U+XXXX" token for a character that *)
(* UTF-8 encodes in more than one byte.  TLC's integers are 32 bits wide,  *)
(* so a signed 64-bit integer is kept as a sign and its decimal digits     *)
(* and an instant as days since 1970-01-01, second of the day and          *)
(* nanosecond.                                                             *)
(***************************************************************************)
EXTENDS Integers, Sequences, FiniteSets, TLC

VARIABLES zone, now, input, result, prior

vars == <<zone, now, input, result, prior>>

-----------------------------------------------------------------------------
(* Characters and strings.                                                 *)

LC == <<"a","b","c","d","e","f","g","h","i","j","k","l","m",
        "n","o","p","q","r","s","t","u","v","w","x","y","z">>
UC == <<"A","B","C","D","E","F","G","H","I","J","K","L","M",
        "N","O","P","Q","R","S","T","U","V","W","X","Y","Z">>

Digit == {"0","1","2","3","4","5","6","7","8","9"}

DigitVal(c) ==
  CASE c = "0" -> 0 [] c = "1" -> 1 [] c = "2" -> 2 [] c = "3" -> 3
    [] c = "4" -> 4 [] c = "5" -> 5 [] c = "6" -> 6 [] c = "7" -> 7
    [] c = "8" -> 8 [] c = "9" -> 9

DigitChar(d) == <<"0","1","2","3","4","5","6","7","8","9">>[d + 1]

\* Characters outside ASCII: e-acute (2 bytes, alphabetic), the euro sign
\* (3 bytes, not alphabetic).
TwoByte == {"U+00E9"}
ThreeByte == {"U+20AC"}

\* char::len_utf8
ByteLen(c) == IF c \in TwoByte THEN 2 ELSE IF c \in ThreeByte THEN 3 ELSE 1

RECURSIVE StrByteLen(_)
\* str::len: the length in bytes
StrByteLen(s) == IF s = <<>> THEN 0 ELSE ByteLen(Head(s)) + StrByteLen(Tail(s))

IsAsciiAlpha(c) == \E i \in 1..26 : LC[i] = c \/ UC[i] = c

\* char::is_alphabetic
IsAlphabetic(c) == IsAsciiAlpha(c) \/ c \in TwoByte

\* char::is_whitespace
IsSpace(c) == c = " "

ToLower(c) == IF \E i \in 1..26 : UC[i] = c
              THEN LC[CHOOSE i \in 1..26 : UC[i] = c] ELSE c

RECURSIVE LowerStr(_)
LowerStr(s) == IF s = <<>> THEN <<>> ELSE <<ToLower(Head(s))>> \o LowerStr(Tail(s))

Drop(s, n) == SubSeq(s, n + 1, Len(s))
Take(s, n) == SubSeq(s, 1, IF n < Len(s) THEN n ELSE Len(s))

StartsWith(s, p) == Len(s) >= Len(p) /\ SubSeq(s, 1, Len(p)) = p

\* case-insensitive prefix test (eq_ignore_ascii_case on a prefix)
StartsWithCI(s, p) == Len(s) >= Len(p) /\ LowerStr(SubSeq(s, 1, Len(p))) = LowerStr(p)

RECURSIVE TrimStart(_)
\* str::trim_start
TrimStart(s) == IF s # <<>> /\ IsSpace(Head(s)) THEN TrimStart(Tail(s)) ELSE s

RECURSIVE TrimEnd(_)
TrimEnd(s) == IF s # <<>> /\ IsSpace(s[Len(s)]) THEN TrimEnd(SubSeq(s, 1, Len(s) - 1)) ELSE s

\* str::trim
Trim(s) == TrimEnd(TrimStart(s))

RECURSIVE Replace(_, _, _)
\* str::replace: every non-overlapping match of pat, left to right
Replace(s, pat, to) ==
  IF s = <<>> THEN <<>>
  ELSE IF StartsWith(s, pat) THEN to \o Replace(Drop(s, Len(pat)), pat, to)
  ELSE <<Head(s)>> \o Replace(Tail(s), pat, to)

RECURSIVE RemoveChars(_, _)
\* str::replace([..], "") for a set of characters
RemoveChars(s, cs) ==
  IF s = <<>> THEN <<>>
  ELSE (IF Head(s) \in cs THEN <<>> ELSE <<Head(s)>>) \o RemoveChars(Tail(s), cs)

RECURSIVE SplitWhitespaceFrom(_, _)
SplitWhitespaceFrom(s, cur) ==
  IF s = <<>> THEN (IF cur = <<>> THEN <<>> ELSE <<cur>>)
  ELSE IF IsSpace(Head(s))
       THEN (IF cur = <<>> THEN <<>> ELSE <<cur>>) \o SplitWhitespaceFrom(Tail(s), <<>>)
       ELSE SplitWhitespaceFrom(Tail(s), cur \o <<Head(s)>>)

\* str::split_whitespace, collected
SplitWhitespace(s) == SplitWhitespaceFrom(s, <<>>)

RECURSIVE Join(_)
\* [&str]::join(" ")
Join(ts) == IF ts = <<>> THEN <<>>
            ELSE IF Len(ts) = 1 THEN ts[1] ELSE ts[1] \o <<" ">> \o Join(Tail(ts))

\* the last position of a space in s, 0 when there is none
LastSpace(s) == IF \E i \in 1..Len(s) : s[i] = " "
                THEN CHOOSE i \in 1..Len(s) : s[i] = " " /\ \A j \in (i+1)..Len(s) : s[j] # " "
                ELSE 0

\* s.rsplitn(2, ' '), collected: <<after the last space, before it>>, or <<s>>
RSplit2(s) == IF LastSpace(s) = 0 THEN <<s>>
              ELSE <<Drop(s, LastSpace(s)), SubSeq(s, 1, LastSpace(s) - 1)>>

-----------------------------------------------------------------------------
(* The preprocessor.                                                       *)

\* the position of the character that starts at byte offset n, Len(s)+1 when
\* n is the length in bytes, 0 when n is inside a character
CharAtByte(s, n) ==
  IF \E i \in 1..(Len(s) + 1) : StrByteLen(SubSeq(s, 1, i - 1)) = n
  THEN CHOOSE i \in 1..(Len(s) + 1) : StrByteLen(SubSeq(s, 1, i - 1)) = n
  ELSE 0

\* a rewrite of the slash alone
DashSlashOnly(x) == IF x = "/" THEN "-" ELSE x

\* x.eq(&'.') || x.eq(&'/') => '-'
DashSeparator(x) == IF x = "." \/ x = "/" THEN "-" ELSE x

\* s.len() < 8: a length in bytes
MinByteLen == 8
\* s.chars().take(8): a count of characters
PrefixChars == 8
\* &s[8..]: an offset in bytes
SliceByte == 8

RewritePrefix(s) == [i \in 1..Len(Take(s, PrefixChars)) |-> DashSeparator(s[i])]

\* &s[8..] panics when byte 8 is not a character boundary
standardize_date_panics(s) ==
  StrByteLen(s) >= MinByteLen /\ CharAtByte(s, SliceByte) = 0

\* the returned string; defined when standardize_date_panics(s) is false
standardize_date(s) ==
  LET body == IF StrByteLen(s) < MinByteLen
              THEN s
              ELSE RewritePrefix(s) \o Drop(s, CharAtByte(s, SliceByte) - 1)
  IN RemoveChars(
       Replace(Replace(body, <<" ","U","T","C">>, <<" ","G","M","T">>),
               <<" ","U","T">>, <<" ","G","M","T">>),
       {",", ";"})

-----------------------------------------------------------------------------
(* Decimal arithmetic on digit sequences (most significant digit first).   *)

RECURSIVE StripZeros(_)
StripZeros(ds) == IF ds # <<>> /\ Head(ds) = 0 THEN StripZeros(Tail(ds)) ELSE ds

RECURSIVE LexLess(_, _)
\* a < b for digit sequences of the same length
LexLess(a, b) ==
  IF a = <<>> THEN FALSE
  ELSE IF Head(a) # Head(b) THEN Head(a) < Head(b) ELSE LexLess(Tail(a), Tail(b))

\* a <= b for magnitudes without leading zeros
MagLeq(a, b) == Len(a) < Len(b) \/ (Len(a) = Len(b) /\ ~LexLess(b, a))

RECURSIVE DigitsToInt(_)
\* the value of at most 9 digits
DigitsToInt(ds) == IF ds = <<>> THEN 0 ELSE DigitsToInt(SubSeq(ds, 1, Len(ds) - 1)) * 10 + ds[Len(ds)]

RECURSIVE IntToDigits(_)
IntToDigits(n) == IF n = 0 THEN <<>> ELSE IntToDigits(n \div 10) \o <<n % 10>>

Nines(n) == [i \in 1..n |-> 9]

RECURSIVE LongDiv(_, _, _, _)
\* schoolbook division of a digit sequence by k: <<quotient digits, remainder>>
LongDiv(ds, k, q, r) ==
  IF ds = <<>> THEN <<StripZeros(q), r>>
  ELSE LET cur == r * 10 + Head(ds)
       IN LongDiv(Tail(ds), k, q \o <<cur \div k>>, cur % k)

DivMod(ds, k) == LongDiv(ds, k, <<>>, 0)

\* ds \div 10^n and ds % 10^n (n <= 9)
DropLow(ds, n) == IF Len(ds) <= n THEN <<>> ELSE SubSeq(ds, 1, Len(ds) - n)
LowPart(ds, n) == DigitsToInt(IF Len(ds) <= n THEN ds ELSE SubSeq(ds, Len(ds) - n + 1, Len(ds)))

RECURSIVE CharsToDigits(_)
CharsToDigits(s) == IF s = <<>> THEN <<>> ELSE <<DigitVal(Head(s))>> \o CharsToDigits(Tail(s))

AllDigits(s) == \A i \in 1..Len(s) : s[i] \in Digit

-----------------------------------------------------------------------------
(* i64 and f64, as str::parse reads them.  An i64 is [neg, mag]: the sign  *)
(* and the magnitude's digits without leading zeros (zero is <<>>).        *)

I64MaxMag == <<9,2,2,3,3,7,2,0,3,6,8,5,4,7,7,5,8,0,7>>
I64MinMag == <<9,2,2,3,3,7,2,0,3,6,8,5,4,7,7,5,8,0,8>>

I64(neg, mag) == [neg |-> neg /\ mag # <<>>, mag |-> mag]
I64Max == I64(FALSE, I64MaxMag)
I64Min == I64(TRUE, I64MinMag)

None == <<>>
Some(v) == <<v>>

\* s.parse::<i64>(): an optional sign, then one or more digits; an overflow
\* is an error
ParseI64(s) ==
  LET signed == s # <<>> /\ Head(s) \in {"+", "-"}
      body == IF signed THEN Tail(s) ELSE s
      neg == signed /\ Head(s) = "-"
      mag == StripZeros(CharsToDigits(body))
  IN IF body = <<>> \/ ~AllDigits(body) THEN None
     ELSE IF MagLeq(mag, IF neg THEN I64MinMag ELSE I64MaxMag)
          THEN Some(I64(neg, mag)) ELSE None

\* value as i64 for an f64 whose integer part has magnitude mag: the cast
\* truncates toward zero and saturates at the ends of i64
SaturateI64(neg, mag) ==
  IF MagLeq(mag, IF neg THEN I64MinMag ELSE I64MaxMag)
  THEN I64(neg, mag) ELSE IF neg THEN I64Min ELSE I64Max

RECURSIVE DigitRun(_)
\* the longest prefix of s made of digits
DigitRun(s) == IF s # <<>> /\ Head(s) \in Digit THEN <<Head(s)>> \o DigitRun(Tail(s)) ELSE <<>>

\* <<the digits s starts with, what follows them>>
SplitDigits(s) == <<DigitRun(s), Drop(s, Len(DigitRun(s)))>>

\* s.parse::<f64>() as i64.  f64::from_str reads
\*   [+-] ( inf | infinity | nan | digits [. digits] [ (e|E) [+-] digits ] )
\* with a digit on at least one side of the point, letters in either case.
\* A numeral is read into [int, frac, hasExp, expNeg, exp, rest].
F64ExpRecord(b, expNeg, d) ==
  [int |-> b[1], frac |-> b[2], hasExp |-> TRUE, expNeg |-> expNeg, exp |-> d[1], rest |-> d[2]]

F64ExpDigits(b, r) ==
  LET signed == r # <<>> /\ Head(r) \in {"+", "-"}
  IN F64ExpRecord(b, signed /\ Head(r) = "-", SplitDigits(IF signed THEN Tail(r) ELSE r))

\* b is <<integer digits, fraction digits, rest>>
F64Exponent(b) ==
  IF b[3] # <<>> /\ Head(b[3]) = "e" THEN F64ExpDigits(b, Tail(b[3]))
  ELSE [int |-> b[1], frac |-> b[2], hasExp |-> FALSE, expNeg |-> FALSE, exp |-> <<>>, rest |-> b[3]]

\* a is <<integer digits, rest>>
F64Fraction(a) ==
  IF a[2] # <<>> /\ Head(a[2]) = "." THEN <<a[1]>> \o SplitDigits(Tail(a[2]))
  ELSE <<a[1], <<>>, a[2]>>

F64Numeral(body) == F64Exponent(F64Fraction(SplitDigits(body)))

\* the magnitude of the integer part of the numeral n.  It is exact for a
\* numeral of at most 15 significant digits and for one beyond the range of
\* i64; the numerals of this model are such.  An exponent of more than 3
\* digits gives an infinite or a zero value.
F64Whole(n) ==
  LET expMag == StripZeros(CharsToDigits(n.exp))
      all == CharsToDigits(n.int \o n.frac)
      \* the number of digits of `all` left of the point after scaling
      point == IF Len(expMag) > 3
               THEN (IF n.expNeg THEN 0 ELSE Len(all) + 400)
               ELSE Len(n.int) + (IF n.expNeg THEN -1 ELSE 1) * DigitsToInt(expMag)
  IN IF StripZeros(all) = <<>> \/ point <= 0 THEN <<>>
     ELSE IF point <= Len(all) THEN StripZeros(SubSeq(all, 1, point))
     ELSE StripZeros(all \o [i \in 1..(point - Len(all)) |-> 0])

F64Cast(neg, body, n) ==
  IF body = <<"i","n","f">> \/ body = <<"i","n","f","i","n","i","t","y">>
    THEN Some(IF neg THEN I64Min ELSE I64Max)
  ELSE IF body = <<"n","a","n">> THEN Some(I64(FALSE, <<>>))
  ELSE IF n.int \o n.frac = <<>> \/ (n.hasExp /\ n.exp = <<>>) \/ n.rest # <<>> THEN None
  ELSE Some(SaturateI64(neg, F64Whole(n)))

F64Body(neg, body) == F64Cast(neg, body, F64Numeral(body))

ParseF64AsI64(s) ==
  LET signed == s # <<>> /\ Head(s) \in {"+", "-"}
  IN F64Body(signed /\ Head(s) = "-", LowerStr(IF signed THEN Tail(s) ELSE s))

-----------------------------------------------------------------------------
(* The proleptic Gregorian calendar of chrono::NaiveDate.                  *)

\* NaiveDate::MIN and NaiveDate::MAX are January 1 and December 31 of these
MIN_YEAR == -262143
MAX_YEAR == 262142

IsLeap(y) == y % 4 = 0 /\ (y % 100 # 0 \/ y % 400 = 0)

DaysInMonth(y, m) ==
  IF m = 2 THEN (IF IsLeap(y) THEN 29 ELSE 28)
  ELSE IF m \in {4, 6, 9, 11} THEN 30 ELSE 31

\* NaiveDate::from_ymd_opt(y, m, d).is_some()
ValidDate(y, m, d) ==
  /\ y >= MIN_YEAR /\ y <= MAX_YEAR
  /\ m >= 1 /\ m <= 12
  /\ d >= 1 /\ d <= DaysInMonth(y, m)

\* days from 1970-01-01 to y-m-d
DaysFromCivil(y, m, d) ==
  LET yy == IF m <= 2 THEN y - 1 ELSE y
      era == yy \div 400
      yoe == yy - era * 400
      mp == IF m > 2 THEN m - 3 ELSE m + 9
      doy == (153 * mp + 2) \div 5 + d - 1
      doe == yoe * 365 + yoe \div 4 - yoe \div 100 + doy
  IN era * 146097 + doe - 719468

\* <<year, month, day>> of the day `days` after 1970-01-01, through the day
\* of the 400-year era, the year of the era, the day of the year (from March
\* 1) and the month (from March)
CivilFromMp(y0, doy, mp) ==
  <<y0 + (IF mp >= 10 THEN 1 ELSE 0), IF mp < 10 THEN mp + 3 ELSE mp - 9,
    doy - ((153 * mp + 2) \div 5) + 1>>

CivilFromDoy(y0, doy) == CivilFromMp(y0, doy, (5 * doy + 2) \div 153)

CivilFromYoe(era, doe, yoe) ==
  CivilFromDoy(era * 400 + yoe, doe - (365 * yoe + (yoe \div 4) - (yoe \div 100)))

CivilFromDoe(era, doe) ==
  CivilFromYoe(era, doe, (doe - (doe \div 1460) + (doe \div 36524) - (doe \div 146096)) \div 365)

CivilFromDays(days) == CivilFromDoe((days + 719468) \div 146097, (days + 719468) % 146097)

\* Datelike::weekday, 0 for Monday (1970-01-01 is a Thursday)
WeekdayOf(days) == (days + 3) % 7

MinDays == DaysFromCivil(MIN_YEAR, 1, 1)
MaxDays == DaysFromCivil(MAX_YEAR, 12, 31)

\* a NaiveDateTime: the day, the second of the day, the nanosecond (from
\* 1000000000 on: a leap second)
Naive(days, sod, nsec) == [days |-> days, sod |-> sod, nsec |-> nsec]

\* NaiveDateTime::from_timestamp_opt(secs, nsec) for an i64 secs: the day is
\* secs.div_euclid(86400), the second of the day secs.rem_euclid(86400); qr
\* is <<quotient, remainder>> of the magnitude
NaiveOfDay(days, sod, nsec) ==
  IF days < MinDays \/ days > MaxDays THEN None ELSE Some(Naive(days, sod, nsec))

NaiveOfDivMod(neg, qr, nsec) ==
  IF Len(qr[1]) > 8 THEN None
  ELSE IF neg /\ qr[2] # 0 THEN NaiveOfDay(-DigitsToInt(qr[1]) - 1, 86400 - qr[2], nsec)
  ELSE NaiveOfDay(IF neg THEN -DigitsToInt(qr[1]) ELSE DigitsToInt(qr[1]), qr[2], nsec)

from_timestamp_opt(secs, nsec) == NaiveOfDivMod(secs.neg, DivMod(secs.mag, 86400), nsec)

-----------------------------------------------------------------------------
(* Results.  A DateTime<FixedOffset> is the naive UTC date-time and the     *)
(* offset in seconds east of UTC.                                          *)

DateTime(utc, off) == [days |-> utc.days, sod |-> utc.sod, nsec |-> utc.nsec, off |-> off]

Ok(ts) == [kind |-> "ok", ts |-> ts]
Err(msg) == [kind |-> "err", msg |-> msg]
\* the call does not return: a panic unwinds out of it
Panic == [kind |-> "panic"]

IsOk(r) == r.kind = "ok"

\* the instant of a timestamp, whatever its offset
Instant(ts) == <<ts.days, ts.sod, ts.nsec>>

-----------------------------------------------------------------------------
(* Strategy 1: the numeric epoch.                                          *)

\* tts <= 9999999999, tts <= 9999999999999, tts <= 9999999999999999
SecondsDigits == 10
MillisDigits == 13
MicrosDigits == 16

\* tts <= 10^n - 1
I64LeqNines(tts, n) == tts.neg \/ MagLeq(tts.mag, Nines(n))

\* tts / 10^n and (tts % 10^n) as u32, for tts >= 0
I64DivPow10(tts, n) == I64(FALSE, DropLow(tts.mag, n))
I64ModPow10(tts, n) == LowPart(tts.mag, n)

\* the integer the strategy decodes, None when the text is no number
epoch_tts(s) ==
  IF ParseI64(s) # None THEN ParseI64(s) ELSE ParseF64AsI64(s)

\* epoch_naive with seconds read up to one digit more
epoch_naive_wide_seconds(tts) ==
  IF I64LeqNines(tts, SecondsDigits + 1) THEN
    from_timestamp_opt(tts, 0)
  ELSE IF I64LeqNines(tts, MillisDigits) THEN
    from_timestamp_opt(I64DivPow10(tts, 3), I64ModPow10(tts, 3) * 1000000)
  ELSE IF I64LeqNines(tts, MicrosDigits) THEN
    from_timestamp_opt(I64DivPow10(tts, 6), I64ModPow10(tts, 6) * 1000)
  ELSE
    from_timestamp_opt(I64DivPow10(tts, 9), I64ModPow10(tts, 9))

epoch_naive(tts) ==
  IF I64LeqNines(tts, SecondsDigits) THEN
    from_timestamp_opt(tts, 0)
  ELSE IF I64LeqNines(tts, MillisDigits) THEN
    from_timestamp_opt(I64DivPow10(tts, 3), I64ModPow10(tts, 3) * 1000000)
  ELSE IF I64LeqNines(tts, MicrosDigits) THEN
    from_timestamp_opt(I64DivPow10(tts, 6), I64ModPow10(tts, 6) * 1000)
  ELSE
    from_timestamp_opt(I64DivPow10(tts, 9), I64ModPow10(tts, 9))

\* the timestamp of the decoded date-time, in UTC
EpochDateTime(dt) == IF dt = None THEN Err("incorrect ts") ELSE Ok(DateTime(dt[1], 0))

EpochResult(tts) ==
  IF tts = None THEN Err("invalid float literal") ELSE EpochDateTime(epoch_naive(tts[1]))

from_unix_timestamp(s) == EpochResult(epoch_tts(s))

-----------------------------------------------------------------------------
(* chrono::format: parsing a string against a layout.  A layout is a       *)
(* sequence of items: a specifier ("%Y", "%m", ...), a space, or a literal *)
(* character.  Parsing fills a Parsed record, which is then resolved to a  *)
(* date, a time or a date-time.                                            *)

\* Display of chrono::ParseError
OUT_OF_RANGE == "input is out of range"
IMPOSSIBLE == "no possible date and time matching input"
NOT_ENOUGH == "input is not enough for unique date and time"
INVALID == "input contains invalid characters"
TOO_SHORT == "premature end of input"
TOO_LONG == "trailing input"

\* Parsed::new()
NewParsed ==
  [year |-> None, year_mod_100 |-> None, month |-> None, day |-> None,
   weekday |-> None, hour_div_12 |-> None, hour_mod_12 |-> None,
   minute |-> None, second |-> None, nanosecond |-> None, offset |-> None]

\* the state of a parse: the error ("" while there is none), the rest of the
\* input, the fields so far
Step(err, rest, p) == [err |-> err, rest |-> rest, p |-> p]
Fail(err, s, p) == Step(err, s, p)

\* set_if_consistent: a field set twice must be set to the same value
SetField(s, p, f, v) ==
  IF p[f] = None THEN Step("", s, [p EXCEPT ![f] = Some(v)])
  ELSE IF p[f] = Some(v) THEN Step("", s, p)
  ELSE Fail(IMPOSSIBLE, s, p)

SetRanged(s, p, f, v, lo, hi) ==
  IF v < lo \/ v > hi THEN Fail(OUT_OF_RANGE, s, p) ELSE SetField(s, p, f, v)

\* Parsed::set_hour: both halves of the hour
SetHourLow(a, v) == IF a.err # "" THEN a ELSE SetField(a.rest, a.p, "hour_mod_12", v % 12)

SetHour(s, p, v) ==
  IF v < 0 \/ v > 23 THEN Fail(OUT_OF_RANGE, s, p)
  ELSE SetHourLow(SetField(s, p, "hour_div_12", v \div 12), v)

\* Parsed::set_hour12
SetHour12(s, p, v) ==
  IF v < 1 \/ v > 12 THEN Fail(OUT_OF_RANGE, s, p)
  ELSE SetField(s, p, "hour_mod_12", v % 12)

\* scan::number(s, min, max): <<error, value, rest>>; at least min and at most
\* max digits.  A value of more than 9 significant digits is beyond every
\* field's range.
NumberOfRun(s, min, run) ==
  IF Len(s) < min THEN <<TOO_SHORT, 0, s>>
  ELSE IF Len(run) < min THEN <<INVALID, 0, s>>
  ELSE IF Len(StripZeros(CharsToDigits(run))) > 9 THEN <<OUT_OF_RANGE, 0, s>>
  ELSE <<"", DigitsToInt(StripZeros(CharsToDigits(run))), Drop(s, Len(run))>>

ScanNumber(s, min, max) == NumberOfRun(s, min, Take(DigitRun(s), max))

Negated(n) == <<n[1], -n[2], n[3]>>

\* a numeric item that may carry a sign: with a sign any number of digits,
\* without one at most `width`
ScanSigned(s, width) ==
  IF s # <<>> /\ Head(s) = "-" THEN Negated(ScanNumber(Tail(s), 1, Len(s)))
  ELSE IF s # <<>> /\ Head(s) = "+" THEN ScanNumber(Tail(s), 1, Len(s))
  ELSE ScanNumber(s, 1, width)

ShortMonths == <<<<"j","a","n">>, <<"f","e","b">>, <<"m","a","r">>, <<"a","p","r">>,
    <<"m","a","y">>, <<"j","u","n">>, <<"j","u","l">>, <<"a","u","g">>,
    <<"s","e","p">>, <<"o","c","t">>, <<"n","o","v">>, <<"d","e","c">>>>
LongMonthSuffixes == <<<<"u","a","r","y">>, <<"r","u","a","r","y">>, <<"c","h">>, <<"i","l">>,
    <<>>, <<"e">>, <<"y">>, <<"u","s","t">>,
    <<"t","e","m","b","e","r">>, <<"o","b","e","r">>, <<"e","m","b","e","r">>, <<"e","m","b","e","r">>>>
ShortWeekdays == <<<<"m","o","n">>, <<"t","u","e">>, <<"w","e","d">>, <<"t","h","u">>,
    <<"f","r","i">>, <<"s","a","t">>, <<"s","u","n">>>>
LongWeekdaySuffixes == <<<<"d","a","y">>, <<"s","d","a","y">>, <<"n","e","s","d","a","y">>, <<"r","s","d","a","y">>,
    <<"d","a","y">>, <<"u","r","d","a","y">>, <<"d","a","y">>>>

\* the index in `names` of the three letters `word`, 0 when none
NameIndex(names, word) ==
  IF \E i \in 1..Len(names) : names[i] = word
  THEN CHOOSE i \in 1..Len(names) : names[i] = word
  ELSE 0

NameFound(i, s) == IF i = 0 THEN <<INVALID, 0, s>> ELSE <<"", i, Drop(s, 3)>>

\* scan::short_month0, scan::short_weekday: <<error, index, rest>>
ScanShortName(names, s) ==
  IF Len(s) < 3 THEN <<TOO_SHORT, 0, s>>
  ELSE NameFound(NameIndex(names, LowerStr(SubSeq(s, 1, 3))), s)

LongName(n, suffixes) ==
  IF n[1] = "" /\ StartsWithCI(n[3], suffixes[n[2]])
  THEN <<"", n[2], Drop(n[3], Len(suffixes[n[2]]))>>
  ELSE n

\* scan::short_or_long_month0, scan::short_or_long_weekday: the long name's
\* remainder is consumed when it follows
ScanShortOrLongName(names, suffixes, s) == LongName(ScanShortName(names, s), suffixes)

Pow10(n) == <<1, 10, 100, 1000, 10000, 100000, 1000000, 10000000, 100000000, 1000000000>>[n + 1]

\* scan::nanosecond: up to 9 digits as a fraction of a second, further
\* digits dropped
NanosOfNumber(s, n) ==
  IF n[1] # "" THEN n
  ELSE <<"", n[2] * Pow10(9 - (Len(s) - Len(n[3]))), Drop(n[3], Len(DigitRun(n[3])))>>

ScanNanosecond(s) == NanosOfNumber(s, ScanNumber(s, 1, 9))

RECURSIVE TrimColonOrSpace(_)
\* scan::colon_or_space
TrimColonOrSpace(s) ==
  IF s # <<>> /\ (Head(s) = ":" \/ IsSpace(Head(s))) THEN TrimColonOrSpace(Tail(s)) ELSE s

\* how scan::timezone_offset consumes what stands between hours and minutes
ConsumeColon(mode, s) ==
  CASE mode = "colon_or_space" -> <<"", TrimColonOrSpace(s)>>
    [] mode = "colon_maybe" -> <<"", IF s # <<>> /\ Head(s) = ":" THEN Tail(s) ELSE s>>
    [] mode = "colon" -> IF s = <<>> THEN <<TOO_SHORT, s>>
                         ELSE IF Head(s) = ":" THEN <<"", Tail(s)>> ELSE <<INVALID, s>>
    [] mode = "none" -> <<"", s>>

Signed(negative, seconds) == IF negative THEN -seconds ELSE seconds

\* the minutes of an offset; c is what ConsumeColon left after the hours
OffsetMinutes(s, negative, hours, c, allow_missing_minutes) ==
  IF c[1] # "" THEN <<c[1], 0, s>>
  ELSE IF Len(c[2]) >= 2
  THEN IF c[2][1] \in Digit /\ c[2][2] \in Digit
       THEN IF DigitVal(c[2][1]) > 5 THEN <<OUT_OF_RANGE, 0, s>>
            ELSE <<"", Signed(negative, hours * 3600
                                        + (DigitVal(c[2][1]) * 10 + DigitVal(c[2][2])) * 60),
                   Drop(c[2], 2)>>
       ELSE <<INVALID, 0, s>>
  ELSE IF ~allow_missing_minutes \/ Len(c[2]) = 1 THEN <<TOO_SHORT, 0, s>>
  ELSE <<"", Signed(negative, hours * 3600), c[2]>>

\* scan::timezone_offset: <<error, seconds east, rest>>
ScanTimezoneOffset(s, mode, allow_zulu, allow_missing_minutes) ==
  IF allow_zulu /\ s # <<>> /\ Head(s) \in {"Z", "z"} THEN <<"", 0, Tail(s)>>
  ELSE IF s = <<>> THEN <<TOO_SHORT, 0, s>>
  ELSE IF Head(s) \notin {"+", "-"} THEN <<INVALID, 0, s>>
  ELSE IF Len(s) < 3 THEN <<TOO_SHORT, 0, s>>
  ELSE IF s[2] \notin Digit \/ s[3] \notin Digit THEN <<INVALID, 0, s>>
  ELSE OffsetMinutes(s, Head(s) = "-", DigitVal(s[2]) * 10 + DigitVal(s[3]),
                     ConsumeColon(mode, Drop(s, 3)), allow_missing_minutes)

\* the items a composite specifier stands for
Composite(it) ==
  CASE it = "%T" -> <<"%H", ":", "%M", ":", "%S">>
    [] it = "%D" -> <<"%m", "/", "%d", "/", "%y">>
    [] it = "%F" -> <<"%Y", "-", "%m", "-", "%d">>
    [] it = "%v" -> <<"%e", "-", "%b", "-", "%Y">>
    [] it = "%c" -> <<"%a", " ", "%b", " ", "%e", " ", "%H", ":", "%M", ":", "%S", " ", "%Y">>
    [] OTHER -> <<it>>

RECURSIVE Expand(_)
\* StrftimeItems: the layout with its composite specifiers written out
Expand(items) == IF items = <<>> THEN <<>> ELSE Composite(Head(items)) \o Expand(Tail(items))

\* the scanned value n = <<error, value, rest>> stored in field f
Store(n, s, p, f) == IF n[1] # "" THEN Fail(n[1], s, p) ELSE SetField(n[3], p, f, n[2])

\* the same for a name, whose index counts from 1
StoreIndex(n, s, p, f) ==
  IF n[1] # "" THEN Fail(n[1], s, p) ELSE SetField(n[3], p, f, n[2] - 1)

StoreRanged(n, s, p, f, lo, hi) ==
  IF n[1] # "" THEN Fail(n[1], s, p) ELSE SetRanged(n[3], p, f, n[2], lo, hi)

StoreHour(n, s, p) == IF n[1] # "" THEN Fail(n[1], s, p) ELSE SetHour(n[3], p, n[2])

StoreHour12(n, s, p) == IF n[1] # "" THEN Fail(n[1], s, p) ELSE SetHour12(n[3], p, n[2])

\* a numeric item other than the year: leading whitespace is skipped
NumericItem(s, p, width, f, lo, hi) ==
  StoreRanged(ScanNumber(TrimStart(s), 1, width), s, p, f, lo, hi)

\* the date and the time part of parse_rfc3339_relaxed
RFC3339_DATE_ITEMS == <<"%Y", " ", "-", "%m", " ", "-", "%d">>
RFC3339_TIME_ITEMS == <<"%H", " ", ":", "%M", " ", ":", "%S", "%.f", " ">>

RECURSIVE ParsePrefix(_, _, _)
RECURSIVE ParseItem(_, _, _)

\* the offset of parse_rfc3339_relaxed; r is the text after the time
RelaxedOffset(r) ==
  IF StartsWithCI(r, <<"u","t","c">>) THEN <<"", 0, Drop(r, 3)>>
  ELSE ScanTimezoneOffset(r, "colon_maybe", TRUE, FALSE)

\* t is the parse of the time part
RelaxedZone(s, p, t) ==
  IF t.err # "" THEN Fail(t.err, s, p)
  ELSE IF t.rest = <<>> THEN Fail(NOT_ENOUGH, s, p)
  ELSE Store(RelaxedOffset(TrimStart(t.rest)), s, t.p, "offset")

\* d is the parse of the date part
RelaxedTime(s, p, d) ==
  IF d.err # "" THEN Fail(d.err, s, p)
  ELSE IF d.rest = <<>> THEN Fail(NOT_ENOUGH, s, p)
  ELSE IF d.rest[1] \notin {"t", "T", " "} THEN Fail(INVALID, s, p)
  ELSE RelaxedZone(s, p, ParsePrefix(RFC3339_TIME_ITEMS, Tail(d.rest), d.p))

\* parse_rfc3339_relaxed, the parser of "%+"
ParseRfc3339Relaxed(s, p) == RelaxedTime(s, p, ParsePrefix(RFC3339_DATE_ITEMS, s, p))

\* one item of parse_internal
ParseItem(it, s, p) ==
  CASE it = " " -> Step("", TrimStart(s), p)
    [] it = "%Y" -> Store(ScanSigned(TrimStart(s), 4), s, p, "year")
    [] it = "%y" -> NumericItem(s, p, 2, "year_mod_100", 0, 99)
    [] it = "%m" -> NumericItem(s, p, 2, "month", 1, 12)
    [] it \in {"%d", "%e"} -> NumericItem(s, p, 2, "day", 1, 31)
    [] it = "%H" -> StoreHour(ScanNumber(TrimStart(s), 1, 2), s, p)
    [] it = "%I" -> StoreHour12(ScanNumber(TrimStart(s), 1, 2), s, p)
    [] it = "%M" -> NumericItem(s, p, 2, "minute", 0, 59)
    [] it = "%S" -> NumericItem(s, p, 2, "second", 0, 60)
    [] it = "%f" -> NumericItem(s, p, 9, "nanosecond", 0, 999999999)
    [] it = "%b" -> Store(ScanShortName(ShortMonths, s), s, p, "month")
    [] it = "%B" -> Store(ScanShortOrLongName(ShortMonths, LongMonthSuffixes, s), s, p, "month")
    [] it = "%a" -> StoreIndex(ScanShortName(ShortWeekdays, s), s, p, "weekday")
    [] it = "%A" ->
         StoreIndex(ScanShortOrLongName(ShortWeekdays, LongWeekdaySuffixes, s), s, p, "weekday")
    [] it \in {"%P", "%p"} ->
         IF Len(s) < 2 THEN Fail(TOO_SHORT, s, p)
         ELSE IF LowerStr(SubSeq(s, 1, 2)) = <<"a","m">> THEN SetField(Drop(s, 2), p, "hour_div_12", 0)
         ELSE IF LowerStr(SubSeq(s, 1, 2)) = <<"p","m">> THEN SetField(Drop(s, 2), p, "hour_div_12", 1)
         ELSE Fail(INVALID, s, p)
    [] it = "%.f" ->
         IF s # <<>> /\ Head(s) = "." THEN Store(ScanNanosecond(Tail(s)), s, p, "nanosecond")
         ELSE Step("", s, p)
    [] it = "%z" ->
         Store(ScanTimezoneOffset(TrimStart(s), "colon_or_space", FALSE, FALSE), s, p, "offset")
    [] it = "%#z" ->
         Store(ScanTimezoneOffset(TrimStart(s), "colon_or_space", TRUE, TRUE), s, p, "offset")
    [] it = "%+" -> ParseRfc3339Relaxed(s, p)
    [] OTHER ->
         IF Len(s) < 1 THEN Fail(TOO_SHORT, s, p)
         ELSE IF Head(s) # it THEN Fail(INVALID, s, p)
         ELSE Step("", Tail(s), p)

\* the items after one that left r
ParseRest(items, r) == IF r.err # "" THEN r ELSE ParsePrefix(items, r.rest, r.p)

\* parse_internal up to the end of the items
ParsePrefix(items, s, p) ==
  IF items = <<>> THEN Step("", s, p)
  ELSE ParseRest(Tail(items), ParseItem(Head(items), s, p))

\* the end of the input after the last item
ParseEnd(r) == IF r.err = "" /\ r.rest # <<>> THEN Fail(TOO_LONG, r.rest, r.p) ELSE r

\* format::parse: every item, then the end of the input
Parse(s, layout) == ParseEnd(ParsePrefix(Expand(layout), s, NewParsed))

-----------------------------------------------------------------------------
(* Resolution of the parsed fields (Parsed::to_naive_date, to_naive_time,  *)
(* to_naive_datetime_with_offset, to_datetime): <<error, value>>.          *)

ParsedYear(p) ==
  IF p.year # None THEN p.year
  ELSE IF p.year_mod_100 # None
       THEN Some(p.year_mod_100[1] + (IF p.year_mod_100[1] < 70 THEN 2000 ELSE 1900))
       ELSE None

\* the day number of the date
to_naive_date(p) ==
  LET y == ParsedYear(p)
  IN IF y = None \/ p.month = None \/ p.day = None THEN <<NOT_ENOUGH, 0>>
     ELSE IF p.year # None /\ p.year_mod_100 # None
             /\ (p.year[1] < 0 \/ p.year[1] % 100 # p.year_mod_100[1]) THEN <<IMPOSSIBLE, 0>>
     ELSE IF ~ValidDate(y[1], p.month[1], p.day[1]) THEN <<OUT_OF_RANGE, 0>>
     ELSE LET days == DaysFromCivil(y[1], p.month[1], p.day[1])
          IN IF p.weekday # None /\ p.weekday[1] # WeekdayOf(days)
             THEN <<IMPOSSIBLE, 0>> ELSE <<"", days>>

\* <<second of the day, nanosecond>>; second 60 is the leap second of :59
to_naive_time(p) ==
  IF p.hour_div_12 = None \/ p.hour_mod_12 = None \/ p.minute = None THEN <<NOT_ENOUGH, <<0, 0>>>>
  ELSE IF p.nanosecond # None /\ p.second = None THEN <<NOT_ENOUGH, <<0, 0>>>>
  ELSE LET sec == IF p.second = None THEN 0 ELSE p.second[1]
           nano == IF p.nanosecond = None THEN 0 ELSE p.nanosecond[1]
           hms == (p.hour_div_12[1] * 12 + p.hour_mod_12[1]) * 3600 + p.minute[1] * 60
       IN IF sec = 60 THEN <<"", <<hms + 59, 1000000000 + nano>>>>
          ELSE <<"", <<hms + sec, nano>>>>

NaiveOfParts(d, t) ==
  IF d[1] # "" THEN <<d[1], Naive(0, 0, 0)>>
  ELSE IF t[1] # "" THEN <<t[1], Naive(0, 0, 0)>>
  ELSE <<"", Naive(d[2], t[2][1], t[2][2])>>

to_naive_datetime(p) == NaiveOfParts(to_naive_date(p), to_naive_time(p))

\* a naive date-time moved by `secs` seconds (|secs| < 86400)
ShiftNaive(n, secs) ==
  LET total == n.sod + secs
  IN Naive(n.days + total \div 86400, total % 86400, n.nsec)

InRange(n) == n.days >= MinDays /\ n.days <= MaxDays

\* the UTC date-time u with its offset, when in range
DateTimeInRange(u, off) ==
  IF ~InRange(u) THEN <<OUT_OF_RANGE, 0>> ELSE <<"", DateTime(u, off)>>

\* n is the local date-time <<error, value>>
DateTimeAtOffset(p, n) ==
  IF p.offset = None THEN <<NOT_ENOUGH, 0>>
  ELSE IF n[1] # "" THEN <<n[1], 0>>
  ELSE IF p.offset[1] <= -86400 \/ p.offset[1] >= 86400 THEN <<OUT_OF_RANGE, 0>>
  ELSE DateTimeInRange(ShiftNaive(n[2], -p.offset[1]), p.offset[1])

\* Parsed::to_datetime: the local date-time at the parsed offset
to_datetime(p) == DateTimeAtOffset(p, to_naive_datetime(p))

\* what a parse r resolves to: a NaiveDate, a NaiveTime, a NaiveDateTime or a
\* DateTime<FixedOffset>
Resolve(kind, r) ==
  IF r.err # "" THEN <<r.err, 0>>
  ELSE CASE kind = "date" -> to_naive_date(r.p)
         [] kind = "time" -> to_naive_time(r.p)
         [] kind = "naive" -> to_naive_datetime(r.p)
         [] kind = "datetime" -> to_datetime(r.p)

\* NaiveDate::parse_from_str, NaiveTime::parse_from_str,
\* NaiveDateTime::parse_from_str, DateTime::parse_from_str: <<error, value>>
parse_from_str(kind, s, layout) == Resolve(kind, Parse(s, layout))

-----------------------------------------------------------------------------
(* DateTime::parse_from_rfc3339 and DateTime::parse_from_rfc2822.          *)

RECURSIVE ParseExact(_, _, _)

\* the number n = <<error, value, rest>> stored in the field f
ExactNumber(f, n, s, p) ==
  IF n[1] # "" THEN Fail(n[1], s, p)
  ELSE IF f[2] = "hour" THEN SetHour(n[3], p, n[2])
  ELSE SetRanged(n[3], p, f[2], n[2], f[3], f[4])

\* a field is <<digits, name, least, greatest>> or <<a literal character>>
ExactField(f, s, p) ==
  IF Len(f) > 1 THEN ExactNumber(f, ScanNumber(s, f[1], f[1]), s, p)
  ELSE IF s = <<>> THEN Fail(TOO_SHORT, s, p)
  ELSE IF Head(s) # f[1] THEN Fail(INVALID, s, p)
  ELSE Step("", Tail(s), p)

ExactRest(fields, r) == IF r.err # "" THEN r ELSE ParseExact(fields, r.rest, r.p)

\* a run of fields of an exact number of digits and of literal characters
ParseExact(fields, s, p) ==
  IF fields = <<>> THEN Step("", s, p)
  ELSE ExactRest(Tail(fields), ExactField(Head(fields), s, p))

\* parse_rfc3339: YYYY-MM-DD, one of T t or a space, HH:MM:SS, an optional
\* fraction, then Z or +HH:MM; each part takes the parse so far
Rfc3339Date(s) ==
  ParseExact(<< <<4, "year", 0, 9999>>, <<"-">>, <<2, "month", 1, 12>>, <<"-">>,
                <<2, "day", 1, 31>> >>, s, NewParsed)

Rfc3339Time(d) ==
  IF d.err # "" THEN d
  ELSE IF d.rest = <<>> THEN Fail(TOO_SHORT, d.rest, d.p)
  ELSE IF d.rest[1] \notin {"t", "T", " "} THEN Fail(INVALID, d.rest, d.p)
  ELSE ParseExact(<< <<2, "hour", 0, 23>>, <<":">>, <<2, "minute", 0, 59>>, <<":">>,
                     <<2, "second", 0, 60>> >>, Tail(d.rest), d.p)

Rfc3339Fraction(r) ==
  IF r.err # "" \/ r.rest = <<>> \/ Head(r.rest) # "." THEN r
  ELSE Store(ScanNanosecond(Tail(r.rest)), r.rest, r.p, "nanosecond")

Rfc3339Offset(r) ==
  IF r.err # "" THEN r
  ELSE Store(ScanTimezoneOffset(r.rest, "colon", TRUE, FALSE), r.rest, r.p, "offset")

parse_from_rfc3339(s) ==
  Resolve("datetime", ParseEnd(Rfc3339Offset(Rfc3339Fraction(Rfc3339Time(Rfc3339Date(s))))))

\* scan::space: at least one whitespace character
ScanSpace(s) ==
  IF TrimStart(s) # s THEN <<"", TrimStart(s)>>
  ELSE IF s = <<>> THEN <<TOO_SHORT, s>> ELSE <<INVALID, s>>

RECURSIVE AlphaRun(_)
AlphaRun(s) == IF s # <<>> /\ IsAsciiAlpha(Head(s)) THEN <<Head(s)>> \o AlphaRun(Tail(s)) ELSE <<>>

\* the zone names of RFC 2822 and their hours east of UTC
Rfc2822Zones ==
  << <<<<"g","m","t">>, 0>>, <<<<"u","t">>, 0>>, <<<<"z">>, 0>>,
     <<<<"e","d","t">>, -4>>, <<<<"e","s","t">>, -5>>, <<<<"c","d","t">>, -5>>,
     <<<<"c","s","t">>, -6>>, <<<<"m","d","t">>, -6>>, <<<<"m","s","t">>, -7>>,
     <<<<"p","d","t">>, -7>>, <<<<"p","s","t">>, -8>> >>

\* the offset of the zone name `name`, in lower case
ZoneOfName(s, name) ==
  IF name = <<>> THEN ScanTimezoneOffset(s, "none", FALSE, FALSE)
  ELSE IF \E i \in 1..Len(Rfc2822Zones) : Rfc2822Zones[i][1] = name
       THEN <<"", 3600 * Rfc2822Zones[CHOOSE i \in 1..Len(Rfc2822Zones) :
                                         Rfc2822Zones[i][1] = name][2], Drop(s, Len(name))>>
  ELSE IF Len(name) = 1 /\ name # <<"j">> THEN <<"", 0, Drop(s, Len(name))>>
  ELSE <<INVALID, 0, s>>

\* scan::timezone_offset_2822: a zone name or +HHMM; every other one-letter
\* name but j counts as +0000, every other name is invalid
ScanTimezoneOffset2822(s) == ZoneOfName(s, LowerStr(AlphaRun(s)))

\* parse_rfc2822's year: two digits are 20xx below 50 and 19xx from 50 on,
\* three digits are 1900 + the number
Rfc2822Year(digits, v) ==
  IF digits = 2 THEN (IF v < 50 THEN v + 2000 ELSE v + 1900)
  ELSE IF digits = 3 THEN v + 1900 ELSE v

\* DateTime::parse_from_rfc2822:
\*   [weekday ","] day month year hour ":" minute [":" second] zone
\* Each part takes the parse so far.  wd is the weekday scanned at s.
Rfc2822Weekday(s, wd) ==
  IF wd[1] # "" THEN Step("", s, NewParsed)
  ELSE IF wd[3] = <<>> \/ Head(wd[3]) # "," THEN Fail(INVALID, s, NewParsed)
  ELSE Step("", TrimStart(Tail(wd[3])), [NewParsed EXCEPT !.weekday = Some(wd[2] - 1)])

SpaceStep(sp, p) == Step(sp[1], sp[2], p)

Rfc2822Space(r) == IF r.err # "" THEN r ELSE SpaceStep(ScanSpace(r.rest), r.p)

Rfc2822Day(r) ==
  IF r.err # "" THEN r ELSE StoreRanged(ScanNumber(r.rest, 1, 2), r.rest, r.p, "day", 1, 31)

Rfc2822Month(r) ==
  IF r.err # "" THEN r ELSE Store(ScanShortName(ShortMonths, r.rest), r.rest, r.p, "month")

StoreYear(n, r) ==
  IF n[1] # "" THEN Fail(n[1], r.rest, r.p)
  ELSE SetField(n[3], r.p, "year", Rfc2822Year(Len(r.rest) - Len(n[3]), n[2]))

Rfc2822YearField(r) ==
  IF r.err # "" THEN r ELSE StoreYear(ScanNumber(r.rest, 2, Len(r.rest)), r)

Rfc2822Hour(r) == IF r.err # "" THEN r ELSE StoreHour(ScanNumber(r.rest, 2, 2), r.rest, r.p)

Rfc2822Colon(r) ==
  IF r.err # "" THEN r
  ELSE IF TrimStart(r.rest) = <<>> THEN Fail(TOO_SHORT, r.rest, r.p)
  ELSE IF Head(TrimStart(r.rest)) # ":" THEN Fail(INVALID, r.rest, r.p)
  ELSE Step("", TrimStart(Tail(TrimStart(r.rest))), r.p)

Rfc2822Minute(r) ==
  IF r.err # "" THEN r
  ELSE StoreRanged(ScanNumber(r.rest, 2, 2), r.rest, r.p, "minute", 0, 59)

Rfc2822Second(r) ==
  IF r.err # "" \/ TrimStart(r.rest) = <<>> \/ Head(TrimStart(r.rest)) # ":" THEN r
  ELSE StoreRanged(ScanNumber(Tail(TrimStart(r.rest)), 2, 2), r.rest, r.p, "second", 0, 60)

Rfc2822Zone(r) ==
  IF r.err # "" THEN r ELSE Store(ScanTimezoneOffset2822(r.rest), r.rest, r.p, "offset")

Rfc2822Date(s) ==
  Rfc2822YearField(Rfc2822Space(Rfc2822Month(Rfc2822Space(Rfc2822Day(
    Rfc2822Weekday(s, ScanShortName(ShortWeekdays, s)))))))

Rfc2822Time(r) ==
  Rfc2822Zone(Rfc2822Space(Rfc2822Second(Rfc2822Minute(Rfc2822Colon(Rfc2822Hour(
    Rfc2822Space(r)))))))

parse_from_rfc2822(s) == Resolve("datetime", ParseEnd(Rfc2822Time(Rfc2822Date(TrimStart(s)))))

-----------------------------------------------------------------------------
(* Formatting.                                                             *)

ToUpper(c) == IF \E i \in 1..26 : LC[i] = c
              THEN UC[CHOOSE i \in 1..26 : LC[i] = c] ELSE c

\* "Jan", "Mon": a short name with its first letter in upper case
Capitalized(name) == <<ToUpper(name[1])>> \o Tail(name)

\* n in at least w digits, zero-padded
RECURSIVE Padded(_, _)
Padded(n, w) ==
  IF w <= 1 /\ n < 10 THEN <<DigitChar(n)>>
  ELSE Padded(n \div 10, w - 1) \o <<DigitChar(n % 10)>>

\* %Y: four digits, and a sign for a year outside 0..9999
FormatYear(y) ==
  IF y >= 0 /\ y <= 9999 THEN Padded(y, 4)
  ELSE IF y < 0 THEN <<"-">> \o Padded(-y, 4) ELSE <<"+">> \o Padded(y, 4)

\* the second of the minute as written: 60 for a leap second
WrittenSecond(n) == (n.sod % 60) + (IF n.nsec >= 1000000000 THEN 1 ELSE 0)
WrittenNanos(n) == IF n.nsec >= 1000000000 THEN n.nsec - 1000000000 ELSE n.nsec

FormatDate(n) ==
  LET ymd == CivilFromDays(n.days)
  IN FormatYear(ymd[1]) \o <<"-">> \o Padded(ymd[2], 2) \o <<"-">> \o Padded(ymd[3], 2)

FormatTime(n) ==
  Padded(n.sod \div 3600, 2) \o <<":">> \o Padded((n.sod \div 60) % 60, 2)
    \o <<":">> \o Padded(WrittenSecond(n), 2)

\* x.format("%a, %d %b %Y %H:%M:%S")
FormatRfc2822Naive(n) ==
  LET ymd == CivilFromDays(n.days)
  IN Capitalized(ShortWeekdays[WeekdayOf(n.days) + 1]) \o <<",", " ">>
       \o Padded(ymd[3], 2) \o <<" ">> \o Capitalized(ShortMonths[ymd[2]]) \o <<" ">>
       \o FormatYear(ymd[1]) \o <<" ">> \o FormatTime(n)

\* the local date-time of a timestamp
LocalNaive(ts) == ShiftNaive(Naive(ts.days, ts.sod, ts.nsec), ts.off)

\* SecondsFormat::AutoSi: no fraction, or 3, 6 or 9 digits
FormatFraction(nanos) ==
  IF nanos = 0 THEN <<>>
  ELSE IF nanos % 1000000 = 0 THEN <<".">> \o Padded(nanos \div 1000000, 3)
  ELSE IF nanos % 1000 = 0 THEN <<".">> \o Padded(nanos \div 1000, 6)
  ELSE <<".">> \o Padded(nanos, 9)

\* an offset written without its sign
FormatOffsetUnsigned(off) ==
  LET minutes == ((IF off < 0 THEN -off ELSE off) + 30) \div 60
  IN <<"+">> \o Padded(minutes \div 60, 2) \o <<":">> \o Padded(minutes % 60, 2)

\* the offset as +HH:MM, rounded to the nearest minute
FormatOffset(off) ==
  LET minutes == ((IF off < 0 THEN -off ELSE off) + 30) \div 60
  IN <<IF off < 0 THEN "-" ELSE "+">> \o Padded(minutes \div 60, 2) \o <<":">>
       \o Padded(minutes % 60, 2)

\* DateTime::to_rfc3339
to_rfc3339(ts) ==
  FormatDate(LocalNaive(ts)) \o <<"T">> \o FormatTime(LocalNaive(ts))
    \o FormatFraction(WrittenNanos(LocalNaive(ts))) \o FormatOffset(ts.off)

-----------------------------------------------------------------------------
(* The layouts of the strategies, in the order the code tries them.        *)

\* from_datetime_with_tz, after RFC 3339 and RFC 2822
WithTzLayouts ==
  <<
     <<"%Y","-","%m","-","%d","T","%T","%.f","%z">>,  \* %Y-%m-%dT%T%.f%z
     <<"%Y","-","%m","-","%d"," ","%T","%#z">>,  \* %Y-%m-%d %T%#z
     <<"%Y","-","%m","-","%d"," ","%T",".","%f","%#z">>,  \* %Y-%m-%d %T.%f%#z
     <<"%B"," ","%d"," ","%Y"," ","%T"," ","%#z">>,  \* %B %d %Y %T %#z
     <<"%B"," ","%d"," ","%Y"," ","%T",".","%f","%#z">>,  \* %B %d %Y %T.%f%#z
     <<"%A"," ","%d"," ","%B"," ","%Y"," ","%T",".","%f","%#z">>,  \* %A %d %B %Y %T.%f%#z
     <<"%A"," ","%d"," ","%B"," ","%Y"," ","%T"," ","%#z">>,  \* %A %d %B %Y %T %#z
     <<"%A"," ","%d"," ","%B"," ","%T"," ","%#z"," ","%Y">>,  \* %A %d %B %T %#z %Y
     <<"%A"," ","%B"," ","%d"," ","%T"," ","%#z"," ","%Y">>,  \* %A %B %d %T %#z %Y
     <<"%A"," ","%d"," ","%B"," ","%T",".","%f"," ","%#z"," ","%Y">>,  \* %A %d %B %T.%f %#z %Y
     <<"%A"," ","%B"," ","%d"," ","%T",".","%f"," ","%#z"," ","%Y">>,  \* %A %B %d %T.%f %#z %Y
     <<"%A"," ","%d"," ","%B"," ","%H",":","%M"," ","%#z"," ","%Y">>,  \* %A %d %B %H:%M %#z %Y
     <<"%A"," ","%B"," ","%d"," ","%H",":","%M"," ","%#z"," ","%Y">>,  \* %A %B %d %H:%M %#z %Y
     <<"%A"," ","%d"," ","%B"," ","%I",":","%M"," ","%P"," ","%#z"," ","%Y">>,  \* %A %d %B %I:%M %P %#z %Y
     <<"%A"," ","%B"," ","%d"," ","%I",":","%M"," ","%P"," ","%#z"," ","%Y">>,  \* %A %B %d %I:%M %P %#z %Y
     <<"%A"," ","%d"," ","%B"," ","%I",":","%M","%P"," ","%#z"," ","%Y">>,  \* %A %d %B %I:%M%P %#z %Y
     <<"%A"," ","%B"," ","%d"," ","%I",":","%M","%P"," ","%#z"," ","%Y">>   \* %A %B %d %I:%M%P %#z %Y
  >>

\* from_datetime_without_tz
WithoutTzLayouts ==
  <<
     <<"%Y","-","%m","-","%d","T","%T">>,  \* %Y-%m-%dT%T
     <<"%c">>,  \* %c
     <<"%Y","-","%m","-","%d","T","%T",".","%f">>,  \* %Y-%m-%dT%T.%f
     <<"%Y","-","%m","-","%d"," ","%T">>,  \* %Y-%m-%d %T
     <<"%Y","-","%m","-","%d"," ","%T",".","%f">>,  \* %Y-%m-%d %T.%f
     <<"%Y"," ","%b"," ","%d"," ","%T">>,  \* %Y %b %d %T
     <<"%B"," ","%d"," ","%Y"," ","%T">>,  \* %B %d %Y %T
     <<"%B"," ","%d"," ","%Y"," ","%T",".","%f">>,  \* %B %d %Y %T.%f
     <<"%B"," ","%d",","," ","%Y"," ","%T">>,  \* %B %d, %Y %T
     <<"%B"," ","%d",","," ","%Y"," ","%T",".","%f">>,  \* %B %d, %Y %T.%f
     <<"%Y","-","%m","-","%d"," ","%T">>,  \* %Y-%m-%d %T
     <<"%Y","-","%m","-","%d"," ","%T",".","%f">>,  \* %Y-%m-%d %T.%f
     <<"%A"," ","%d"," ","%B"," ","%Y"," ","%T",".","%f">>,  \* %A %d %B %Y %T.%f
     <<"%A"," ","%d"," ","%B"," ","%Y"," ","%T">>,  \* %A %d %B %Y %T
     <<"%A"," ","%d"," ","%B"," ","%Y"," ","%I",":","%M","%P">>,  \* %A %d %B %Y %I:%M%P
     <<"%A"," ","%d"," ","%B"," ","%Y"," ","%I",":","%M"," ","%P">>,  \* %A %d %B %Y %I:%M %P
     <<"%A"," ","%d"," ","%B"," ","%Y"," ","%I",":","%M",":","%S","%P">>,  \* %A %d %B %Y %I:%M:%S%P
     <<"%A"," ","%d"," ","%B"," ","%Y"," ","%I",":","%M",":","%S"," ","%P">>,  \* %A %d %B %Y %I:%M:%S %P
     <<"%A"," ","%d"," ","%m"," ","%Y"," ","%I",":","%M","%P">>,  \* %A %d %m %Y %I:%M%P
     <<"%A"," ","%d"," ","%m"," ","%Y"," ","%I",":","%M"," ","%P">>,  \* %A %d %m %Y %I:%M %P
     <<"%A"," ","%d"," ","%m"," ","%Y"," ","%I",":","%M",":","%S","%P">>,  \* %A %d %m %Y %I:%M:%S%P
     <<"%A"," ","%d"," ","%m"," ","%Y"," ","%I",":","%M",":","%S"," ","%P">>,  \* %A %d %m %Y %I:%M:%S %P
     <<"%d"," ","%B"," ","%Y"," ","%I",":","%M","%P">>,  \* %d %B %Y %I:%M%P
     <<"%d"," ","%B"," ","%Y"," ","%I",":","%M"," ","%P">>,  \* %d %B %Y %I:%M %P
     <<"%d"," ","%B"," ","%Y"," ","%I",":","%M",":","%S","%P">>,  \* %d %B %Y %I:%M:%S%P
     <<"%d"," ","%B"," ","%Y"," ","%I",":","%M",":","%S"," ","%P">>,  \* %d %B %Y %I:%M:%S %P
     <<"%d"," ","%m"," ","%Y"," ","%I",":","%M","%P">>,  \* %d %m %Y %I:%M%P
     <<"%d"," ","%m"," ","%Y"," ","%I",":","%M"," ","%P">>,  \* %d %m %Y %I:%M %P
     <<"%d"," ","%m"," ","%Y"," ","%I",":","%M",":","%S","%P">>,  \* %d %m %Y %I:%M:%S%P
     <<"%d"," ","%m"," ","%Y"," ","%I",":","%M",":","%S"," ","%P">>,  \* %d %m %Y %I:%M:%S %P
     <<"%m","-","%d","-","%Y"," ","%H",":","%M",":","%S"," ","%p">>,  \* %-m-%-d-%Y %-H:%-M:%-S %p
     <<"%d"," ","%b"," ","%Y"," ","%H",":","%M",":","%S">>   \* %d %b %Y %H:%M:%S
  >>

\* from_date_without_tz
DateLayouts ==
  <<
     <<"%Y","-","%m","-","%d">>,  \* %Y-%m-%d
     <<"%m","-","%d","-","%y">>,  \* %m-%d-%y
     <<"%D">>,  \* %D
     <<"%F">>,  \* %F
     <<"%v">>,  \* %v
     <<"%B"," ","%d"," ","%Y">>,  \* %B %d %Y
     <<"%d"," ","%B"," ","%Y">>   \* %d %B %Y
  >>

\* from_time_without_tz
TimeLayouts ==
  <<
     <<"%T">>,  \* %T
     <<"%I",":","%M","%P">>,  \* %I:%M%P
     <<"%I",":","%M"," ","%P">>   \* %I:%M %P
  >>

\* try_mmmddyyyy_hms_tz
MmmLayouts ==
  <<
     <<"%B"," ","%d"," ","%Y"," ","%H",":","%M",":","%S"," ","%z">>,  \* %B %d %Y %H:%M:%S %z
     <<"%B"," ","%d"," ","%Y"," ","%I",":","%M",":","%S","%P"," ","%z">>,  \* %B %d %Y %I:%M:%S%P %z
     <<"%B"," ","%d"," ","%Y"," ","%I",":","%M",":","%S"," ","%P"," ","%z">>,  \* %B %d %Y %I:%M:%S %P %z
     <<"%A"," ","%B"," ","%d"," ","%Y"," ","%H",":","%M",":","%S"," ","%z">>,  \* %A %B %d %Y %H:%M:%S %z
     <<"%A"," ","%B"," ","%d"," ","%Y"," ","%I",":","%M","%P"," ","%z">>,  \* %A %B %d %Y %I:%M%P %z
     <<"%A"," ","%B"," ","%d"," ","%Y"," ","%I",":","%M"," ","%P"," ","%z">>   \* %A %B %d %Y %I:%M %P %z
  >>

\* to_rfc2822
Rfc2822Layouts ==
  <<
     <<"%Y","-","%m","-","%d"," ","%H",":","%M",":","%S">>,  \* %Y-%m-%d %H:%M:%S
     <<"%Y","-","%m","-","%d"," ","%I",":","%M","%P">>,  \* %Y-%m-%d %I:%M%P
     <<"%Y","-","%m","-","%d"," ","%I",":","%M"," ","%P">>,  \* %Y-%m-%d %I:%M %P
     <<"%Y","-","%m","-","%d"," ","%H",":","%M">>,  \* %Y-%m-%d %H:%M
     <<"%d"," ","%B"," ","%Y"," ","%T">>,  \* %d %B %Y %T
     <<"%d"," ","%B"," ","%Y"," ","%T",".","%f">>,  \* %d %B %Y %T.%f
     <<"%B"," ","%d"," ","%Y"," ","%H",":","%M">>,  \* %B %d %Y %H:%M
     <<"%B"," ","%d"," ","%Y"," ","%T">>,  \* %B %d %Y %T
     <<"%B"," ","%d"," ","%Y"," ","%T",".","%f">>,  \* %B %d %Y %T.%f
     <<"%A"," ","%B"," ","%d"," ","%Y"," ","%T",".","%f">>,  \* %A %B %d %Y %T.%f
     <<"%A"," ","%B"," ","%d"," ","%Y"," ","%T">>,  \* %A %B %d %Y %T
     <<"%A"," ","%d"," ","%B"," ","%Y"," ","%T">>,  \* %A %d %B %Y %T
     <<"%A"," ","%d"," ","%B"," ","%Y"," ","%T",".","%f">>,  \* %A %d %B %Y %T.%f
     <<"%A"," ","%d"," ","%m"," ","%Y"," ","%T",".","%f">>,  \* %A %d %m %Y %T.%f
     <<"%A"," ","%d"," ","%m"," ","%Y"," ","%T">>,  \* %A %d %m %Y %T
     <<"%A"," ","%d"," ","%m"," ","%Y"," ","%T">>,  \* %A %d %m %Y %T
     <<"%A"," ","%d"," ","%m"," ","%Y"," ","%T",".","%f">>,  \* %A %d %m %Y %T.%f
     <<"%A"," ","%d"," ","%m"," ","%T",".","%f"," ","%Y">>,  \* %A %d %m %T.%f %Y
     <<"%A"," ","%d"," ","%m"," ","%T"," ","%Y">>,  \* %A %d %m %T %Y
     <<"%A"," ","%d"," ","%B"," ","%T",".","%f"," ","%Y">>,  \* %A %d %B %T.%f %Y
     <<"%A"," ","%d"," ","%B"," ","%T"," ","%Y">>,  \* %A %d %B %T %Y
     <<"%A"," ","%B"," ","%d"," ","%T",".","%f"," ","%Y">>,  \* %A %B %d %T.%f %Y
     <<"%A"," ","%B"," ","%d"," ","%T"," ","%Y">>,  \* %A %B %d %T %Y
     <<"%A"," ","%m"," ","%d"," ","%H",":","%M"," ","%Y">>,  \* %A %m %d %H:%M %Y
     <<"%A"," ","%d"," ","%m"," ","%H",":","%M"," ","%Y">>,  \* %A %d %m %H:%M %Y
     <<"%A"," ","%d"," ","%B"," ","%H",":","%M"," ","%Y">>,  \* %A %d %B %H:%M %Y
     <<"%A"," ","%B"," ","%d"," ","%H",":","%M"," ","%Y">>,  \* %A %B %d %H:%M %Y
     <<"%A"," ","%m"," ","%d"," ","%I",":","%M","%P"," ","%Y">>,  \* %A %m %d %I:%M%P %Y
     <<"%A"," ","%d"," ","%m"," ","%I",":","%M","%P"," ","%Y">>,  \* %A %d %m %I:%M%P %Y
     <<"%A"," ","%d"," ","%B"," ","%I",":","%M"," ","%P"," ","%Y">>,  \* %A %d %B %I:%M %P %Y
     <<"%A"," ","%d"," ","%B"," ","%I",":","%M","%P"," ","%Y">>,  \* %A %d %B %I:%M%P %Y
     <<"%A"," ","%B"," ","%d"," ","%I",":","%M"," ","%P"," ","%Y">>,  \* %A %B %d %I:%M %P %Y
     <<"%A"," ","%B"," ","%d"," ","%I",":","%M","%P"," ","%Y">>,  \* %A %B %d %I:%M%P %Y
     <<"%d"," ","%m"," ","%T",".","%f"," ","%Y">>,  \* %d %m %T.%f %Y
     <<"%d"," ","%m"," ","%T"," ","%Y">>,  \* %d %m %T %Y
     <<"%d"," ","%B"," ","%T",".","%f"," ","%Y">>,  \* %d %B %T.%f %Y
     <<"%d"," ","%B"," ","%T"," ","%Y">>,  \* %d %B %T %Y
     <<"%B"," ","%d"," ","%T",".","%f"," ","%Y">>,  \* %B %d %T.%f %Y
     <<"%B"," ","%d"," ","%T"," ","%Y">>,  \* %B %d %T %Y
     <<"%m"," ","%d"," ","%I",":","%M"," ","%Y">>,  \* %m %d %I:%M %Y
     <<"%d"," ","%m"," ","%I",":","%M"," ","%Y">>,  \* %d %m %I:%M %Y
     <<"%d"," ","%B"," ","%I",":","%M"," ","%Y">>,  \* %d %B %I:%M %Y
     <<"%B"," ","%d"," ","%I",":","%M"," ","%Y">>,  \* %B %d %I:%M %Y
     <<"%m"," ","%d"," ","%I",":","%M","%P"," ","%Y">>,  \* %m %d %I:%M%P %Y
     <<"%d"," ","%m"," ","%I",":","%M","%P"," ","%Y">>,  \* %d %m %I:%M%P %Y
     <<"%d"," ","%B"," ","%I",":","%M"," ","%P"," ","%Y">>,  \* %d %B %I:%M %P %Y
     <<"%d"," ","%B"," ","%I",":","%M","%P"," ","%Y">>,  \* %d %B %I:%M%P %Y
     <<"%B"," ","%d"," ","%I",":","%M"," ","%P"," ","%Y">>,  \* %B %d %I:%M %P %Y
     <<"%B"," ","%d"," ","%I",":","%M","%P"," ","%Y">>   \* %B %d %I:%M%P %Y
  >>

\* try_others: Feb 12
MonthDayLayouts ==
  <<
     <<"%B"," ","%d"," ","%Y">>   \* %B %d %Y
  >>

\* try_others: 12 Feb
DayMonthLayouts ==
  <<
     <<"%d"," ","%B"," ","%Y">>   \* %d %B %Y
  >>

\* try_others: Feb 12 14:00:01
MonthDayTimeLayouts ==
  <<
     <<"%B"," ","%d"," ","%Y"," ","%H",":","%M">>,  \* %B %d %Y %H:%M
     <<"%b"," ","%d"," ","%Y"," ","%H",":","%M">>,  \* %b %d %Y %H:%M
     <<"%B"," ","%d"," ","%Y"," ","%T">>,  \* %B %d %Y %T
     <<"%b"," ","%d"," ","%Y"," ","%T">>,  \* %b %d %Y %T
     <<"%b"," ","%d"," ","%Y"," ","%T","%.f">>,  \* %b %d %Y %T%.f
     <<"%B"," ","%d"," ","%Y"," ","%T">>,  \* %B %d %Y %T
     <<"%B"," ","%d"," ","%Y"," ","%I",":","%M","%P">>   \* %B %d %Y %I:%M%P
  >>

\* try_others: 12 Feb 14:00:01
DayMonthTimeLayouts ==
  <<
     <<"%d"," ","%B"," ","%Y"," ","%H",":","%M">>,  \* %d %B %Y %H:%M
     <<"%d"," ","%B"," ","%Y"," ","%T">>,  \* %d %B %Y %T
     <<"%d"," ","%B"," ","%Y"," ","%I",":","%M","%P">>   \* %d %B %Y %I:%M%P
  >>

\* try_others: Feb 12 3:33 pm
MonthDayTime12Layouts ==
  <<
     <<"%B"," ","%d"," ","%Y"," ","%I",":","%M"," ","%P">>   \* %B %d %Y %I:%M %P
  >>

\* try_others: 12 Feb 3:33 pm
DayMonthTime12Layouts ==
  <<
     <<"%d"," ","%B"," ","%Y"," ","%I",":","%M"," ","%P">>   \* %d %B %Y %I:%M %P
  >>

-----------------------------------------------------------------------------
(* The platform clock and the local time zone (chrono::Local).  A zone is  *)
(* a standard and a daylight offset in seconds and, when they differ, the  *)
(* local wall-clock <<month, day, second of the day>> at which the clocks  *)
(* go forward (fwd, in standard time) and back (back, in daylight time),   *)
(* the same in every year; before the local day `since` the zone kept its  *)
(* local mean time, the offset lmt.                                        *)

Zone(lmt, since, std, dst, fwd, back) ==
  [lmt |-> lmt, since |-> since, std |-> std, dst |-> dst, fwd |-> fwd, back |-> back]

WallKey(m, d, sod) == (m * 32 + d) * 86400 + sod

\* the offsets of a zone with daylight time at the wall-clock `key`
OffsetsAtKey(z, key, fwd, back) ==
  IF key >= fwd /\ key < fwd + (z.dst - z.std) THEN <<>>
  ELSE IF key >= back - (z.dst - z.std) /\ key < back THEN <<z.dst, z.std>>
  ELSE IF key >= fwd + (z.dst - z.std) /\ key < back - (z.dst - z.std) THEN <<z.dst>>
  ELSE <<z.std>>

OffsetsOnDate(z, ymd, sod) ==
  OffsetsAtKey(z, WallKey(ymd[2], ymd[3], sod), WallKey(z.fwd[1], z.fwd[2], z.fwd[3]),
               WallKey(z.back[1], z.back[2], z.back[3]))

\* the offsets at which the zone shows the local date-time n: none when the
\* clocks skip it, two when they repeat it
LocalOffsets(z, n) ==
  IF n.days < z.since THEN <<z.lmt>>
  ELSE IF z.dst = z.std THEN <<z.std>>
  ELSE OffsetsOnDate(z, CivilFromDays(n.days), n.sod)

\* the later offset taken for a repeated local date-time
AttachAtLatest(n, offs) ==
  IF offs = <<>> THEN Panic
  ELSE IF ~InRange(ShiftNaive(n, -offs[Len(offs)])) THEN Panic
  ELSE Ok(DateTime(ShiftNaive(n, -offs[Len(offs)]), offs[Len(offs)]))

\* the local date-time n at the offsets offs
AttachAt(n, offs) ==
  IF Len(offs) # 1 THEN Panic
  ELSE IF ~InRange(ShiftNaive(n, -offs[1])) THEN Panic
  ELSE Ok(DateTime(ShiftNaive(n, -offs[1]), offs[1]))

\* Local.from_local_datetime(&x), then x.unwrap().with_timezone(x.unwrap().offset()):
\* LocalResult::unwrap panics unless the local date-time has exactly one offset
AttachLocal(z, n) == AttachAt(n, LocalOffsets(z, n))

\* the offset in effect now; `clock` is Local::now() as a local date-time
CurrentOffset(z, clock) == LocalOffsets(z, clock)[1]

\* the year before the one of the clock
YearBefore(clock) == CivilFromDays(clock.days)[1] - 1

\* Local::now().year()
CurrentYear(clock) == CivilFromDays(clock.days)[1]

-----------------------------------------------------------------------------
(* The strategies.                                                         *)

RECURSIVE TryLayouts(_, _, _)
\* a.or_else(|_| b).or_else(|_| c)...: the first layout that parses, else
\* the error of the last one
OrElse(r, kind, s, layouts) ==
  IF r[1] = "" \/ layouts = <<>> THEN r ELSE TryLayouts(kind, s, layouts)

TryLayouts(kind, s, layouts) ==
  OrElse(parse_from_str(kind, s, Head(layouts)), kind, s, Tail(layouts))

FromParsed(r) == IF r[1] = "" THEN Ok(r[2]) ELSE Err(r[1])

parse_rfc3339_item(s) == FromParsed(parse_from_str("datetime", s, <<"%+">>))

\* r is the result of the attempt before
OrWithTzLayouts(s, r) ==
  IF r[1] = "" THEN Ok(r[2]) ELSE FromParsed(TryLayouts("datetime", s, WithTzLayouts))

OrRfc2822(s, r) == IF r[1] = "" THEN Ok(r[2]) ELSE OrWithTzLayouts(s, parse_from_rfc2822(s))

from_datetime_with_tz(s) == OrRfc2822(s, parse_from_rfc3339(s))

\* the parsed NaiveDateTime, NaiveDate (at midnight) or NaiveTime (on the
\* day of `clock`) in the local zone
LocalDateTime(z, r) == IF r[1] # "" THEN Err(r[1]) ELSE AttachLocal(z, r[2])

LocalDate(z, r) == IF r[1] # "" THEN Err(r[1]) ELSE AttachLocal(z, Naive(r[2], 0, 0))

LocalTime(z, clock, r) ==
  IF r[1] # "" THEN Err(r[1]) ELSE AttachLocal(z, Naive(clock.days, r[2][1], r[2][2]))

from_datetime_without_tz(s, z) == LocalDateTime(z, TryLayouts("naive", s, WithoutTzLayouts))

from_date_without_tz(s, z) == LocalDate(z, TryLayouts("date", s, DateLayouts))

from_time_without_tz(s, z, clock) == LocalTime(z, clock, TryLayouts("time", s, TimeLayouts))

AllAlphabetic(t) == \A i \in 1..Len(t) : IsAlphabetic(t[i])

\* is_tz_alpha: <<date part, zone part>> when the text after the last space
\* is all alphabetic, else None
TzAlphaParts(parts) ==
  IF AllAlphabetic(parts[1])
  THEN Some(<<IF Len(parts) > 1 THEN parts[2] ELSE <<>>, parts[1]>>) ELSE None

is_tz_alpha(s) == TzAlphaParts(RSplit2(Trim(s)))

\* r is the NaiveDateTime parsed by one of the layouts of to_rfc2822
Rfc2822WithZone(r, tz) ==
  IF r[1] # "" THEN Err(r[1])
  ELSE FromParsed(parse_from_rfc2822(FormatRfc2822Naive(r[2]) \o <<" ">> \o tz))

to_rfc2822(s, tz) == Rfc2822WithZone(TryLayouts("naive", s, Rfc2822Layouts), tz)

\* a is is_tz_alpha(s)
TodayWithTz(a, clock) ==
  IF a = None THEN Err("custom parsing failed")
  ELSE to_rfc2822(FormatDate(clock) \o <<" ">> \o a[1][1], a[1][2])

from_time_with_tz(s, clock) == TodayWithTz(is_tz_alpha(s), clock)

YearLast(tokens) ==
  IF Len(tokens) < 2 THEN Err("custom parsing failed")
  ELSE to_rfc2822(Join(SubSeq(tokens, 1, Len(tokens) - 2)) \o <<" ">> \o tokens[Len(tokens)],
                  tokens[Len(tokens) - 1])

from_datetime_with_tz_before_year(s) == YearLast(SplitWhitespace(s))

WithTzAlpha(a) ==
  IF a = None THEN Err("custom parsing failed") ELSE to_rfc2822(a[1][1], a[1][2])

try_yms_hms_tz(s) == WithTzAlpha(is_tz_alpha(s))

try_dmmmy_hms_tz(s) == WithTzAlpha(is_tz_alpha(s))

\* parts is <<zone, date-time>>, the text after and before the last space
GmtOffset(parts, tz) ==
  IF Len(parts) < 2 \/ tz = <<>> THEN Err("custom parsing failed")
  ELSE FromParsed(TryLayouts("datetime", parts[2] \o <<" ">> \o RemoveChars(tz, {":"}),
                             MmmLayouts))

GmtParts(parts) == GmtOffset(parts, Replace(parts[1], <<"G","M","T">>, <<>>))

try_mmmddyyyy_hms_tz(s) == GmtParts(RSplit2(s))

\* an i32 as Display writes it
RECURSIVE IntChars(_)
IntChars(n) ==
  IF n < 0 THEN <<"-">> \o IntChars(-n)
  ELSE IF n < 10 THEN <<DigitChar(n)>> ELSE IntChars(n \div 10) \o <<DigitChar(n % 10)>>

\* format!("{} {} {} {}", date[0], date[1], year, date[2])
WithYear3(date, year) ==
  date[1] \o <<" ">> \o date[2] \o <<" ">> \o year \o <<" ">> \o date[3]

\* format!("{} {} {} {} {}", date[0], date[1], year, date[2], date[3])
WithYear4(date, year) == WithYear3(date, year) \o <<" ">> \o date[4]

\* the branch of try_others for the tokens `date` of s: <<what is parsed
\* ("date" or "naive"), the text with the year, the layouts>>, None when the
\* tokens have none of the shapes
OthersBranch(s, date, year) ==
  IF Len(date) = 2 /\ AllAlphabetic(date[1])
    THEN Some(<<"date", s \o <<" ">> \o year, MonthDayLayouts>>)
  ELSE IF Len(date) = 2 /\ AllAlphabetic(date[2])
    THEN Some(<<"date", s \o <<" ">> \o year, DayMonthLayouts>>)
  ELSE IF Len(date) = 3 /\ AllAlphabetic(RemoveChars(date[1], {","}))
    THEN Some(<<"naive", WithYear3(date, year), MonthDayTimeLayouts>>)
  ELSE IF Len(date) = 3 /\ AllAlphabetic(date[2])
    THEN Some(<<"naive", WithYear3(date, year), DayMonthTimeLayouts>>)
  ELSE IF Len(date) = 4 /\ AllAlphabetic(date[1])
    THEN Some(<<"naive", WithYear4(date, year), MonthDayTime12Layouts>>)
  ELSE IF Len(date) = 4 /\ AllAlphabetic(date[2])
    THEN Some(<<"naive", WithYear4(date, year), DayMonthTime12Layouts>>)
  ELSE None

LocalOfBranch(z, kind, r) ==
  IF r[1] # "" THEN Err(r[1])
  ELSE AttachLocal(z, IF kind = "date" THEN Naive(r[2], 0, 0) ELSE r[2])

RunBranch(z, b) ==
  IF b = None THEN Err("failed brute force parsing")
  ELSE LocalOfBranch(z, b[1][1], TryLayouts(b[1][1], b[1][2], b[1][3]))

try_others(s, z, clock) ==
  RunBranch(z, OthersBranch(s, SplitWhitespace(s), IntChars(CurrentYear(clock))))

-----------------------------------------------------------------------------
(* The chain of parse_from.                                                *)

\* the strategies in the order of the or_else chain
Strategies ==
  <<"from_unix_timestamp", "parse_from_str_rfc3339", "from_datetime_with_tz",
    "from_datetime_without_tz", "from_date_without_tz", "from_time_without_tz",
    "from_time_with_tz", "try_yms_hms_tz", "try_dmmmy_hms_tz",
    "try_mmmddyyyy_hms_tz", "from_datetime_with_tz_before_year", "try_others">>

Strategy(name, s, z, clock) ==
  CASE name = "from_unix_timestamp" -> from_unix_timestamp(s)
    [] name = "parse_from_str_rfc3339" -> parse_rfc3339_item(s)
    [] name = "from_datetime_with_tz" -> from_datetime_with_tz(s)
    [] name = "from_datetime_without_tz" -> from_datetime_without_tz(s, z)
    [] name = "from_date_without_tz" -> from_date_without_tz(s, z)
    [] name = "from_time_without_tz" -> from_time_without_tz(s, z, clock)
    [] name = "from_time_with_tz" -> from_time_with_tz(s, clock)
    [] name = "try_yms_hms_tz" -> try_yms_hms_tz(s)
    [] name = "try_dmmmy_hms_tz" -> try_dmmmy_hms_tz(s)
    [] name = "try_mmmddyyyy_hms_tz" -> try_mmmddyyyy_hms_tz(s)
    [] name = "from_datetime_with_tz_before_year" -> from_datetime_with_tz_before_year(s)
    [] name = "try_others" -> try_others(s, z, clock)

\* what a call of parse_from leaves: the returned value (or the panic), the
\* normalized text the strategies saw (None when the preprocessor did not
\* run or did not return), and how many strategies of the chain ran
Outcome(res, norm, ran) == [res |-> res, norm |-> norm, ran |-> ran]

RECURSIVE Chain(_, _, _, _)
\* a.or_else(|_| b)...: strategy i and, when it returns an error, the next
\* a chain in which a success of the first strategy does not end the chain
ChainPastEpoch(i, r, s, z, clock) ==
  IF (r.kind # "err" /\ i > 1) \/ i = Len(Strategies) THEN Outcome(r, Some(s), i)
  ELSE Chain(i + 1, s, z, clock)

\* a chain that returns the error of its first strategy when all reject
ChainFirstError(i, r, s, z, clock) ==
  IF r.kind # "err" THEN Outcome(r, Some(s), i)
  ELSE IF i = Len(Strategies) THEN Outcome(from_unix_timestamp(s), Some(s), i)
  ELSE Chain(i + 1, s, z, clock)

ChainFrom(i, r, s, z, clock) ==
  IF r.kind # "err" \/ i = Len(Strategies) THEN Outcome(r, Some(s), i)
  ELSE Chain(i + 1, s, z, clock)

Chain(i, s, z, clock) == ChainFrom(i, Strategy(Strategies[i], s, z, clock), s, z, clock)

\* parse_from without the test for the empty string
parse_from_unguarded(date_time, z, clock) ==
  IF standardize_date_panics(date_time) THEN Outcome(Panic, None, 0)
  ELSE Chain(1, standardize_date(date_time), z, clock)

parse_from(date_time, z, clock) ==
  IF date_time = <<>> THEN Outcome(Err("cannot be empty"), None, 0)
  ELSE IF standardize_date_panics(date_time) THEN Outcome(Panic, None, 0)
  ELSE Chain(1, standardize_date(date_time), z, clock)

-----------------------------------------------------------------------------
(* The environment and the inputs of the model.                            *)

\* UTC; a zone of central Europe (daylight time from March 31 02:00 to
\* October 27 03:00, local mean time +0:53:28 before 1893-04-01); Monrovia
\* (local mean time -0:44:30 before 1972-01-07, then UTC); Havana (daylight
\* time from March 10 00:00 to November 3 01:00, -5:29:28 before 1925-07-19)
UTC == Zone(0, MinDays, 0, 0, <<1, 1, 0>>, <<1, 1, 0>>)
Zones ==
  { UTC,
    Zone(3208, DaysFromCivil(1893, 4, 1), 3600, 7200, <<3, 31, 7200>>, <<10, 27, 10800>>),
    Zone(-2670, DaysFromCivil(1972, 1, 7), 0, 0, <<1, 1, 0>>, <<1, 1, 0>>),
    Zone(-19768, DaysFromCivil(1925, 7, 19), -18000, -14400, <<3, 10, 0>>, <<11, 3, 3600>>) }

\* Local::now() as a local date-time: noon of a winter day, of a summer day
\* and of March 31, and the first half hour of the next year
Clocks ==
  { Naive(DaysFromCivil(2024, 1, 15), 43200, 0),
    Naive(DaysFromCivil(2024, 7, 15), 43200, 0),
    Naive(DaysFromCivil(2024, 3, 31), 43200, 0),
    Naive(DaysFromCivil(2025, 1, 1), 1800, 0) }

\* the strings the caller parses
Inputs ==
  {
    <<>>,
    <<"1","9","7","0",".","1","2",".","3","1">>,
    <<"1","9","7","0","/","1","2","/","3","1">>,
    <<"1","9","7","0","-","1","2","-","3","1">>,
    <<"1","6","7","2","9","0","3","6","3","9">>,
    <<"1","6","7","2","9","0","3","6","3","9","1","2","3">>,
    <<"1","9","7","0","1","2","3","1">>,
    <<"8","/","7","/","2","0","2","3"," ","8",":","2","3",":","5","0"," ","A","M">>,
    <<"D","e","c"," ","2","7"," ","1","8",":","5","7",":","4","7",".","2","3","4">>,
    <<"0","1"," ","M","a","r"," ","2","0","2","4"," "," ","1","7",":","4","7",":","0","0">>,
    <<"2","0","2","4"," ","M","a","r"," ","2","9"," ","1","8",":","0","1",":","1","8">>,
    <<"M","o","n",","," ","6"," ","J","u","l"," ","1","9","7","0"," ","1","5",":","3","0",":","0","0"," ","P","D","T">>,
    <<"2","0","2","4","-","0","3","-","3","1"," ","0","2",":","3","0",":","0","0">>,
    <<"2","0","2","4","-","1","0","-","2","7"," ","0","2",":","3","0",":","0","0">>,
    <<"2","0","2","4","-","0","3","-","1","0">>,
    <<"0","2",":","3","0",":","0","0">>,
    <<"h","e","l","l","o">>,
    <<"1","2","3","4","5","6","7","U+00E9">>,
    <<"U+00E9","2","0","0","0","/","1","2","/","1","3">>,
    <<"1",".","2",".","7","0">>,
    <<"1","/","2","/","7","0">>,
    <<"1","-","2","-","7","0">>,
    <<"7","0",".","1",".","1">>,
    <<"1","2","/","1","3","/","2","0","0","0">>,
    <<"1","2","-","1","3","-","2","0","0","0">>,
    <<"2","0","2","3","-","0","1","-","0","5","T","0","7",":","2","7",":","1","9",".","1","2","3","+","0","1",":","0","0">>,
    <<"2","0","2","3","-","0","1","-","0","5"," ","0","7",":","2","7",":","1","9"," ","+","0","1","0","0">>,
    <<"W","e","d"," ","J","u","l"," ","1",","," ","3",":","3","3","p","m"," ","P","S","T"," ","1","9","7","0">>,
    <<"F","e","b"," ","1","4"," ","2","0","2","2"," ","1","3",":","1","3",":","5","5"," ","G","M","T","+","0","0",":","0","0">>,
    <<"1","9","7","0","-","1","2","-","2","5"," ","1","6",":","1","6"," ","P","S","T">>,
    <<"1","9","7","0","-","1","2","-","2","5"," ","1","6",":","1","6",":","1","6"," ","U","T","C">>,
    <<"1","2"," ","F","e","b">>,
    <<"F","e","b"," ","1","2">>,
    <<"F","e","b"," ","1","2"," ","3",":","3","3"," ","p","m">>,
    <<"F","e","b"," ","1","2"," ","1","4",":","0","0">>,
    <<"1","8","5","0","-","0","1","-","0","1">>,
    <<"1","8","5","0","/","0","1","/","0","1"," ","1","0",":","0","0",":","0","0">>,
    <<"-","1","1","9","9","-","0","2","-","1","5">>,
    <<"+","1","2","3","4","5","-","0","1","-","0","1">>,
    <<"1","2","/","1","3","/","2","0","0","0"," ","1","2",":","1","2",":","1","2",".","1","4">>,
    <<"1","2",".","1","3",".","2","0","0","0"," ","1","2",":","1","2",":","1","2">>,
    <<"2","0","0","0","/","1","2","/","1","3">>,
    <<"2","3",":","5","9",":","6","0">>,
    <<"3",":","3","3"," ","P","M">>,
    <<"9","9","/","9","9","/","9","9","9","9">>,
    <<"1",".","5">>,
    <<"-","5">>,
    <<"-","9","9","9","9","9","9","9","9","9","9","9">>,
    <<"+","1","2","3","4","5","/","0","1","/","0","1">>,
    <<"+","1","2","3","4","5","-","0","1","-","0","1"," ">>,
    <<"U+00E9","1","/","2","/","7","0">>,
    <<"U+00E9","U+00E9","U+00E9","1","2","/","3","4","/","5","6">>,
    <<"F","e","b"," ","3","0">>,
    <<"h","e","l","l","o"," ","w","o","r","l","d">>,
    <<"1","2"," ","F","e","b"," ","1","4",":","0","0",":","0","1">>,
    <<"1","2"," ","F","e","b"," ","3",":","3","3"," ","p","m">>,
    <<"F","e","b"," ","1","2"," ","3",":","3","3","p","m">>,
    <<"1","2"," ","F","e","b"," ","1","2",":","0","5","a","m">>,
    <<"F","e","b","r","u","a","r","y"," ","2","9">>,
    <<"D","e","c"," ","2","7"," ","2","3",":","5","9",":","6","0">>,
    <<"M","a","r"," ","3","1"," ","0","2",":","3","0">>,
    <<"2","7"," ","D","e","c"," ","1","8",":","5","7",":","4","7",".","2","3","4">>,
    <<"F","e","b"," ","1","2"," ","1","4",":","0","0",":","0","1">>
  }

\* The digits of the generated numerals
MaxDigits == 19

SampleDigits ==
  <<"1","6","7","2","9","0","3","6","3","9","1","2","3","1","2","3","1","2","3","4","5","6">>

\* for every length up to MaxDigits: all nines, a one and zeros, a sample
GeneratedNumerals ==
  UNION { { [i \in 1..n |-> "9"],
            [i \in 1..n |-> IF i = 1 THEN "1" ELSE "0"],
            SubSeq(SampleDigits, 1, n) } : n \in 1..MaxDigits }

\* numerals with a sign, a fraction or an exponent, and near misses
SpecialNumerals ==
  {
    <<"0">>,
    <<"-","5">>,
    <<"+","5">>,
    <<"1",".","5">>,
    <<"1","6","7","2","9","0","3","6","3","9",".","5">>,
    <<"1","6","7","2","9","0","3","6","3","9","1","2","3",".","2","5">>,
    <<"0",".","9","9","9">>,
    <<"1","e","5">>,
    <<"1","E","3">>,
    <<"N","a","N">>,
    <<"i","n","f">>,
    <<"-","i","n","f">>,
    <<"i","n","f","i","n","i","t","y">>,
    <<"5",".">>,
    <<".","5">>,
    <<"1",".","5","e","2">>,
    <<"-","9","9","9","9","9","9","9","9","9","9","9">>,
    <<"-","9","2","2","3","3","7","2","0","3","6","8","5","4","7","7","5","8","0","8">>,
    <<"9","2","2","3","3","7","2","0","3","6","8","5","4","7","7","5","8","0","7">>,
    <<"9","2","2","3","3","7","2","0","3","6","8","5","4","7","7","5","8","0","8">>,
    <<"1","e">>,
    <<"e","5">>,
    <<"1","_","0","0","0">>,
    <<"0","x","1","0">>,
    <<"1",",","5">>,
    <<"1","2",":","3","0">>,
    <<"a","b","c">>,
    <<"1",".","2",".","3">>,
    <<"-","-","5">>,
    <<"1","6","7","2","9","0","3","6","3","9",",","5">>,
    <<" ","5">>,
    <<"0","0","0","0","0","0","0","0","0","0","0","0","1">>
  }

NumeralInputs == GeneratedNumerals \cup SpecialNumerals

-----------------------------------------------------------------------------
(* The state machine: a caller parses a string and may parse the RFC 3339  *)
(* serialization of the timestamp it got; the clock moves between calls.   *)
(*   zone    the local time zone of the process                            *)
(*   now     Local::now() as a local date-time                             *)
(*   input   the string of the last call                                   *)
(*   result  the outcome of the last call                                  *)
(*   prior   the timestamp whose serialization `input` is, if it is one    *)

NoCall == Outcome([kind |-> "none"], None, 0)

Idle == result = NoCall

InitIn(zs) ==
  /\ zone \in zs
  /\ now \in Clocks
  /\ input = <<>>
  /\ result = NoCall
  /\ prior = None

Init == InitIn(Zones)

\* s.parse::<DateTimeFixedOffset>()
Call(s) ==
  /\ Idle
  /\ input' = s
  /\ result' = parse_from(s, zone, now)
  /\ prior' = None
  /\ UNCHANGED <<zone, now>>

\* parse of t.to_rfc3339() for the timestamp t of the last call
Reparse ==
  /\ IsOk(result.res)
  /\ prior = None
  /\ input' = to_rfc3339(result.res.ts)
  /\ result' = parse_from(to_rfc3339(result.res.ts), zone, now)
  /\ prior' = Some(result.res.ts)
  /\ UNCHANGED <<zone, now>>

\* the caller is done with the result
Return ==
  /\ ~Idle
  /\ input' = <<>>
  /\ result' = NoCall
  /\ prior' = None
  /\ UNCHANGED <<zone, now>>

\* time passes between two calls
Tick(c) ==
  /\ Idle
  /\ c # now
  /\ now' = c
  /\ UNCHANGED <<zone, input, result, prior>>

Next ==
  \/ \E s \in Inputs : Call(s)
  \/ Reparse
  \/ Return
  \/ \E c \in Clocks : Tick(c)

Spec == Init /\ [][Next]_vars

\* the numeric inputs, in one zone
NextEpoch ==
  \/ \E s \in NumeralInputs : Call(s)
  \/ Reparse
  \/ Return
  \/ \E c \in Clocks : Tick(c)

SpecEpoch == InitIn({UTC}) /\ [][NextEpoch]_vars

-----------------------------------------------------------------------------
(* The properties.                                                         *)

\* a call has been made and its outcome is in `result`
Called == ~Idle

\* C1: a parse call on the empty string returns the error "cannot be empty",
\* without running the preprocessor or any strategy, and does not abort
C1_EmptyInput ==
  (Called /\ input = <<>>) => result = Outcome(Err("cannot be empty"), None, 0)

C1_Witness == Called /\ input = <<>> /\ result.res.kind = "err"

\* the strategies that succeed on the text s
Succeeding(s, z, clock) ==
  { i \in 1..Len(Strategies) : IsOk(Strategy(Strategies[i], s, z, clock)) }

\* the first of a non-empty set of positions of the chain
First(S) == CHOOSE i \in S : \A j \in S : i <= j

\* what a returned call must be, given the set S of succeeding strategies
FirstWins(S, s, z, clock) ==
  IF S = {} THEN result.res.kind = "err"
  ELSE /\ result.ran = First(S)
       /\ result.res = Strategy(Strategies[First(S)], s, z, clock)

\* C2: the result of a call on a non-empty input is the result of the first
\* strategy of the chain that succeeds on the normalized text, whatever later
\* strategies would return, and the epoch strategy resolves every input made
\* only of digits
C2_FirstSuccessWins ==
  (Called /\ result.norm # None /\ result.res.kind # "panic") =>
    /\ FirstWins(Succeeding(result.norm[1], zone, now), result.norm[1], zone, now)
    /\ AllDigits(result.norm[1]) => (IsOk(result.res) /\ result.ran = 1)

\* two strategies succeed on the text and the earlier one gave the result
C2_Witness ==
  /\ Called /\ IsOk(result.res)
  /\ \E j \in (result.ran + 1)..Len(Strategies) :
       IsOk(Strategy(Strategies[j], result.norm[1], zone, now))

\* the digits of ds * k + carry, by the schoolbook method from the right
RECURSIVE MulAdd(_, _, _)
MulAdd(ds, k, carry) ==
  IF ds = <<>> THEN IntToDigits(carry)
  ELSE MulAdd(SubSeq(ds, 1, Len(ds) - 1), k, (ds[Len(ds)] * k + carry) \div 10)
         \o <<(ds[Len(ds)] * k + carry) % 10>>

\* n in exactly w digits
RECURSIVE FixedDigits(_, _)
FixedDigits(n, w) == IF w = 0 THEN <<>> ELSE FixedDigits(n \div 10, w - 1) \o <<n % 10>>

\* the whole number of units of 10^-k seconds from 1970-01-01T00:00:00Z to the
\* instant of ts (on or after it), as digits; <<-1>> when it is not whole
UnitsSinceEpoch(ts, k) ==
  IF ts.nsec % Pow10(9 - k) # 0 THEN <<-1>>
  ELSE StripZeros(MulAdd(IntToDigits(ts.days), 86400, ts.sod)
                    \o FixedDigits(ts.nsec \div Pow10(9 - k), k))

\* the decimal places of the unit a number of n digits is read in: seconds,
\* milliseconds, microseconds, nanoseconds
UnitPlaces(n) == IF n <= 10 THEN 0 ELSE IF n <= 13 THEN 3 ELSE IF n <= 16 THEN 6 ELSE 9

\* the value of a text of digits
ValueOf(s) == StripZeros(CharsToDigits(s))

\* the text is a non-negative integer that fits i64
IsNatural(s) == s # <<>> /\ AllDigits(s) /\ MagLeq(ValueOf(s), I64MaxMag)

\* C3: a non-negative integer n that fits i64 is read as seconds when it has at
\* most 10 digits, as milliseconds when 11 to 13, as microseconds when 14 to
\* 16, as nanoseconds when more: the result is the instant n of these units
\* after the epoch, sub-second part included, at offset zero
C3_EpochUnits ==
  (Called /\ prior = None /\ IsNatural(input)) =>
    /\ IsOk(result.res) /\ result.ran = 1
    /\ result.res.ts.off = 0
    /\ UnitsSinceEpoch(result.res.ts, UnitPlaces(Len(ValueOf(input)))) = ValueOf(input)

\* a number of nanoseconds with a part below the microsecond
C3_Witness ==
  /\ Called /\ prior = None /\ IsNatural(input) /\ Len(ValueOf(input)) > 16
  /\ IsOk(result.res) /\ result.res.ts.nsec % 1000 # 0

\* the text is digits "." digits with a fraction that is not zero
HasFraction(s) ==
  \E i \in 2..(Len(s) - 1) :
    /\ s[i] = "."
    /\ AllDigits(SubSeq(s, 1, i - 1)) /\ AllDigits(SubSeq(s, i + 1, Len(s)))
    /\ ValueOf(SubSeq(s, i + 1, Len(s))) # <<>>

\* the text before the decimal point
IntegerPart(s) == SubSeq(s, 1, (CHOOSE i \in 1..Len(s) : s[i] = ".") - 1)

\* C4: the fraction of a decimal input is kept as sub-unit precision: the
\* instant returned is not the one of the integer part alone
C4_FractionKept ==
  (Called /\ prior = None /\ HasFraction(input) /\ IsOk(result.res) /\ result.ran = 1) =>
    result.res # from_unix_timestamp(IntegerPart(input))

\* [+-] digits [ "." digits ]
IsNumeral(s) ==
  LET body == IF s # <<>> /\ Head(s) \in {"+", "-"} THEN Tail(s) ELSE s
  IN \/ (body # <<>> /\ AllDigits(body))
     \/ \E i \in 2..(Len(body) - 1) :
          /\ body[i] = "."
          /\ AllDigits(SubSeq(body, 1, i - 1)) /\ AllDigits(SubSeq(body, i + 1, Len(body)))

\* C9: the epoch strategy accepts a text only when the whole of it is an
\* integer or decimal numeral; words and exponent notation are rejected
C9_OnlyNumerals ==
  (Called /\ result.norm # None /\ IsOk(result.res) /\ result.ran = 1) =>
    IsNumeral(result.norm[1])

\* the positions in `Strategies` of the strategies that attach the local
\* offset: from_datetime_without_tz, from_date_without_tz,
\* from_time_without_tz, try_others
NoOffsetStrategies ==
  { i \in 1..Len(Strategies) :
      Strategies[i] \in {"from_datetime_without_tz", "from_date_without_tz",
                         "from_time_without_tz", "try_others"} }

\* the call returned a timestamp made by a strategy that attaches the local offset
LocalResult == Called /\ IsOk(result.res) /\ result.ran \in NoOffsetStrategies

C6_NeverAborts == (Called /\ result.norm # None) => result.res.kind # "panic"

\* the length of the text before the first space
PrefixLen(s) ==
  IF \E i \in 1..Len(s) : s[i] = " "
  THEN (CHOOSE i \in 1..Len(s) : s[i] = " " /\ \A j \in 1..(i - 1) : s[j] # " ") - 1
  ELSE Len(s)

\* the positions of the separators "." and "/" of the date prefix
Separators(s) == { i \in 1..PrefixLen(s) : s[i] \in {".", "/"} }

\* the date prefix is three numbers, the first possibly signed, separated by
\* "." or "/"
HasSeparatedDate(s) ==
  /\ Cardinality(Separators(s)) = 2
  /\ \A i \in 1..PrefixLen(s) :
       \/ s[i] \in Digit
       \/ i = 1 /\ s[i] \in {"+", "-"}
       \/ /\ i \in Separators(s) /\ i > 1 /\ i < PrefixLen(s)
          /\ s[i - 1] \in Digit /\ s[i + 1] \in Digit

\* s with "-" for the separators of its date prefix
Dashed(s) == [i \in 1..Len(s) |-> IF i \in Separators(s) THEN "-" ELSE s[i]]

\* the outcome of the last call and the outcome o agree: both are timestamps
\* of the same instant, or both failures, or both aborts; and a timestamp for
\* a text that is a date alone is midnight of its local day
SameOutcome(o) ==
  /\ result.res.kind = o.res.kind
  /\ IsOk(result.res) => Instant(result.res.ts) = Instant(o.res.ts)
  /\ (IsOk(result.res) /\ PrefixLen(input) = Len(input)) =>
       (LocalNaive(result.res.ts).sod = 0 /\ result.res.ts.nsec = 0)

\* C7 as stated: an input with "." or "/" in its date prefix and the input
\* with "-" in their place have the same outcome, whatever the length
C7_SameAsDashed ==
  (Called /\ prior = None /\ HasSeparatedDate(input)) =>
    SameOutcome(parse_from(Dashed(input), zone, now))

\* C7: the same for an input of at least 8 bytes with the separators of its
\* date prefix among its first 8 characters
C7_SameAsDashedFrom8 ==
  (/\ Called /\ prior = None /\ HasSeparatedDate(input)
   /\ StrByteLen(input) >= 8
   /\ \A i \in Separators(input) : i <= 8) =>
    SameOutcome(parse_from(Dashed(input), zone, now))

C7_Witness ==
  /\ Called /\ prior = None /\ HasSeparatedDate(input)
  /\ StrByteLen(input) >= 8 /\ \A i \in Separators(input) : i <= 8
  /\ IsOk(result.res)
  /\ IsOk(parse_from(Dashed(input), zone, now).res)

\* the last call parsed the serialization of the timestamp `prior`, and gave
\* a timestamp of the same instant
SameInstantAgain == IsOk(result.res) /\ Instant(result.res.ts) = Instant(prior[1])

C10_PreprocessorTotal == (Called /\ input # <<>>) => result.norm # None

\* the rewrites applied to every input: " UTC" and " UT" to " GMT", "," and ";"
\* removed
SuffixAndPunctuation(s) ==
  RemoveChars(
    Replace(Replace(s, <<" ","U","T","C">>, <<" ","G","M","T">>),
            <<" ","U","T">>, <<" ","G","M","T">>),
    {",", ";"})

\* s with "-" for every "." and "/" among its first 8 characters
PrefixDashed(s) ==
  [i \in 1..Len(s) |-> IF i <= 8 /\ s[i] \in {".", "/"} THEN "-" ELSE s[i]]

\* C11: when the preprocessor returns, an input of at least 8 characters has
\* "-" for every "." and "/" among its first 8 characters and every other
\* character as it was, an input of fewer than 8 characters has no "." or "/"
\* rewritten, and both have only the " GMT" rewrite and the removal of ","
\* and ";" applied besides
C11_PrefixRewriteOnly ==
  (Called /\ input # <<>> /\ result.norm # None) =>
    result.norm[1] =
      SuffixAndPunctuation(IF Len(input) >= 8 THEN PrefixDashed(input) ELSE input)

\* every strategy of the chain returns an error on the text s
AllReject(s, z, clock) ==
  \A i \in 1..Len(Strategies) : Strategy(Strategies[i], s, z, clock).kind = "err"

\* the call ran the whole chain on the text s and returned the value r
ReturnedFromLast(r, s) ==
  r.kind = "err" /\ result = Outcome(r, Some(s), Len(Strategies))

\* C12: when every strategy rejects a non-empty input, the call returns a
\* failure that is the error of the last strategy, try_others, and nothing of
\* the errors of the earlier strategies
C12_LastErrorOnly ==
  (Called /\ result.norm # None /\ AllReject(result.norm[1], zone, now)) =>
    ReturnedFromLast(try_others(result.norm[1], zone, now), result.norm[1])

\* all strategies rejected, and the error returned is not the first one met
C12_Witness ==
  /\ Called /\ result.norm # None /\ result.res.kind = "err"
  /\ result.ran = Len(Strategies)
  /\ result.res # from_unix_timestamp(result.norm[1])
  /\ result.res # Err("failed brute force parsing")

RECURSIVE SplitOn(_, _, _)
\* the fields of s between the occurrences of the character c
SplitOn(s, c, cur) ==
  IF s = <<>> THEN <<cur>>
  ELSE IF Head(s) = c THEN <<cur>> \o SplitOn(Tail(s), c, <<>>)
  ELSE SplitOn(Tail(s), c, cur \o <<Head(s)>>)

\* the month a short or long English month name stands for, 0 for another word
MonthNamed(tok) ==
  IF \E m \in 1..12 :
       LowerStr(tok) \in {ShortMonths[m], ShortMonths[m] \o LongMonthSuffixes[m]}
  THEN CHOOSE m \in 1..12 :
         LowerStr(tok) \in {ShortMonths[m], ShortMonths[m] \o LongMonthSuffixes[m]}
  ELSE 0

\* the number a text starts with
NumberIn(tok) == DigitsToInt(CharsToDigits(DigitRun(tok)))

\* the month and the day among the first two tokens
MonthToken(toks) == IF AllAlphabetic(toks[1]) THEN toks[1] ELSE toks[2]
DayToken(toks) == IF AllAlphabetic(toks[1]) THEN toks[2] ELSE toks[1]

\* the hour of the day of hour h with the mark "am" or "pm", or with none
GivenHour(h, mark) ==
  IF mark = <<"a","m">> THEN h % 12
  ELSE IF mark = <<"p","m">> THEN (h % 12) + 12
  ELSE h

\* a fraction of a second, given by its digits, in nanoseconds
FractionNanos(ds) ==
  DigitsToInt(CharsToDigits(Take(ds, 9))) * Pow10(9 - Len(Take(ds, 9)))

\* <<hour, minute, second, nanosecond>> from the fields f of the time token,
\* what follows the digits of its last field, and the mark
TimeOfFields(f, rest, mark) ==
  << GivenHour(NumberIn(f[1]), mark),
     NumberIn(f[2]),
     IF Len(f) >= 3 THEN NumberIn(f[3]) ELSE 0,
     IF Len(f) >= 3 /\ rest # <<>> /\ Head(rest) = "." THEN FractionNanos(Tail(rest)) ELSE 0 >>

RestOfLast(f) == Drop(f[Len(f)], Len(DigitRun(f[Len(f)])))

\* the time of day the tokens give: midnight when there are two, else the
\* third token, with "am" or "pm" at its end or as the fourth token
GivenTime(toks) ==
  IF Len(toks) = 2 THEN <<0, 0, 0, 0>>
  ELSE TimeOfFields(SplitOn(toks[3], ":", <<>>),
                    RestOfLast(SplitOn(toks[3], ":", <<>>)),
                    IF Len(toks) = 4 THEN LowerStr(toks[4])
                    ELSE LowerStr(RestOfLast(SplitOn(toks[3], ":", <<>>))))

\* <<hour, minute, second, nanosecond>> of a date-time; a leap second is
\* second 60
TimeOfDay(n) ==
  << n.sod \div 3600, (n.sod % 3600) \div 60,
     (n.sod % 60) + (n.nsec \div 1000000000), n.nsec % 1000000000 >>

\* the last call got its timestamp from try_others
BruteForceResult == Called /\ IsOk(result.res) /\ result.ran = Len(Strategies)

\* the timestamp ts is the month, day and time of the tokens in the year of
\* the clock, at an offset of the local zone
YearAssumed(toks, ts) ==
  /\ Len(toks) \in 2..4
  /\ CivilFromDays(LocalNaive(ts).days) =
       <<CivilFromDays(now.days)[1], MonthNamed(MonthToken(toks)), NumberIn(DayToken(toks))>>
  /\ TimeOfDay(LocalNaive(ts)) = GivenTime(toks)
  /\ LocalOffsets(zone, LocalNaive(ts)) = <<ts.off>>

=============================================================================
